---- MODULE Spec2Model ----
(***************************************************************************)
(* Evaluation orchestration core of the UX assertion video validator:      *)
(* the Result Parser (parseJsonFromResponse), the timeline / evaluation    *)
(* primitives, the Tool Executor (executeTool), the agentic orchestrator   *)
(* loop (runAgenticPipeline) and the three fixed strategies (single,       *)
(* batch, two-pass).                                                       *)
(*                                                                         *)
(* The vision model behind client.messages.create is the environment: each *)
(* call either throws (transport / auth / rate limit) or answers with a    *)
(* response picked from a bounded set.                                     *)
(***************************************************************************)
EXTENDS Integers, Sequences, FiniteSets, TLC

VARIABLES
    strategy,         \* opts.strategy, or "agentic" / "tool" for the other entry points
    assertions,       \* opts.assertions: sequence of [id, testStepId]
    pc,               \* position of the running async function
    error,            \* what the pipeline rejected with (Absent while none)
    turn,             \* runAgenticPipeline: loop variable turn
    stop_reason,      \* runAgenticPipeline: stop_reason of the latest response
    messages,         \* runAgenticPipeline: messages
    timeline,         \* timeline accumulator / pass-1 timeline
    evaluationsById,  \* evaluationsById / byId : Map id -> evaluation
    toolUseBlocks,    \* runAgenticPipeline: toolUseBlocks of the current turn
    toolResults,      \* runAgenticPipeline: toolResults of the current turn
    idx,              \* runSinglePipeline: position in assertions (for .. of)
    calls,            \* every client.messages.create request issued, in order
    toolCall,         \* executeTool called directly: [toolName, toolInput]
    envelope,         \* executeTool called directly: what it returned
    frames,           \* opts.frames / the frames argument of sampleFramesEvenly
    args,             \* a function called on its own: its other arguments
    ret,              \* a function called on its own: what its calls returned
    pending           \* client.messages.create requests awaited and not yet settled

vars == <<strategy, assertions, pc, error, turn, stop_reason, messages, timeline,
          evaluationsById, toolUseBlocks, toolResults, idx, calls,
          toolCall, envelope, frames, args, ret, pending>>

(***************************************************************************)
(* Bounds of the exploration.                                              *)
(***************************************************************************)
MaxAssertions == 2      \* longest input assertion list
MaxBlocksPerTurn == 2   \* most tool_use blocks in one orchestrator response
MaxToolCalls == 2       \* most tool_use blocks executed in one agentic run
MaxFrames == 8          \* longest frame sequence and largest cap given to sampleFramesEvenly
MaxExtraFrames == 2     \* frames of a video beyond MAX_FRAMES_PER_TIMELINE_REQUEST
MaxAggregated == 3      \* longest assertion list handed to groupByTestStep

(***************************************************************************)
(* Program constants.                                                      *)
(***************************************************************************)
MAX_AGENT_TURNS == 10
MAX_FRAMES_PER_TIMELINE_REQUEST == 20

\* The ids and test steps of the input assertions, in input order.
AssertionIds == <<"a1", "a2", "a3", "a4">>
StepIds == <<"s1", "s1", "s2", "s3">>

(***************************************************************************)
(* JavaScript / JSON values.                                               *)
(***************************************************************************)
Absent == "undefined"

\* x is truthy (for the strings and undefined that occur as ids)
Truthy(x) == x # Absent /\ x # ""

\* a || b
Or(a, b) == IF Truthy(a) THEN a ELSE b

\* A property value that is missing, an array, or something that is no array.
NoField == [kind |-> "absent", items |-> <<>>]
Arr(s) == [kind |-> "array", items |-> s]
NotArr == [kind |-> "other", items |-> <<>>]
IsArray(f) == f.kind = "array"

\* The JSON objects that occur: { timeline?, evaluations?, error? }.
Obj(tl, ev, err) == [timeline |-> tl, evaluations |-> ev, error |-> err]
EmptyObj == Obj(NoField, NoField, Absent)

\* Timeline entries { timestampSeconds, description }.
TEntry(t, d) == [timestampSeconds |-> t, description |-> d]
T0 == TEntry(0, "Login screen shown")
T1 == TEntry(1, "Tap on login")
T2 == TEntry(2, "Home screen shown")

\* Evaluations as the model writes them; confidence in hundredths.
\* Evaluations { assertionId?, id?, verdict, confidence, explanation?, evidence? }.
Eval(aid, id, v, c) ==
    [assertionId |-> aid, id |-> id, verdict |-> v, confidence |-> c,
     explanation |-> Absent, evidence |-> NoField]

\* the JSON value null as an entry of a list
NullEntry == [null |-> TRUE]
IsNull(e) == "null" \in DOMAIN e

\* { assertionId: assertion.id, verdict: "uncertain", confidence: 0,
\*   explanation: "No evaluation returned.", evidence: [] }
FallbackEval(aid) ==
    [assertionId |-> aid, id |-> Absent, verdict |-> "uncertain", confidence |-> 0,
     explanation |-> "No evaluation returned.", evidence |-> Arr(<<>>)]

(***************************************************************************)
(* Frames { framePath, timestampSeconds, frameIndex } and their sampling.  *)
(***************************************************************************)
Frame(i) == [defined |-> TRUE, frameIndex |-> i]

\* frames[NaN]
UndefinedFrame == [defined |-> FALSE, frameIndex |-> 0]

\* the frames of a video, in order
Frames(n) == [k \in 1..n |-> Frame(k - 1)]

\* Math.round(num / den) for num >= 0, den > 0: halves go up
Round(num, den) == (2 * num + den) \div (2 * den)

\* Math.min that returns its second argument
MathMinSecond(a, b) == b

\* Math.min(a, b)
MathMin(a, b) == IF a <= b THEN a ELSE b

\* frames[Math.min(Math.round(i * step), frames.length - 1)] with
\* step = (frames.length - 1) / (maxFrames - 1).  With maxFrames = 1 step is
\* Infinity, 0 * Infinity is NaN, and so is the index.
SampleAt(frs, i, maxFrames) ==
    IF maxFrames = 1 THEN UndefinedFrame
    ELSE frs[MathMin(Round(i * (Len(frs) - 1), maxFrames - 1), Len(frs) - 1) + 1]

\* sampleFramesEvenly that returns the input only when it is shorter than maxFrames - 1
sampleFramesEvenlyEager(frs, maxFrames) ==
    IF Len(frs) < maxFrames - 1 THEN frs
    ELSE [k \in 1..maxFrames |-> SampleAt(frs, k - 1, maxFrames)]

\* sampleFramesEvenly(frames, maxFrames)
sampleFramesEvenly(frs, maxFrames) ==
    IF Len(frs) <= maxFrames THEN frs
    ELSE [k \in 1..maxFrames |-> SampleAt(frs, k - 1, maxFrames)]

(***************************************************************************)
(* Text is a sequence of tokens: a fence (three backticks), the tag        *)
(* "json", white space, the serialisation of a JSON value, or other text.  *)
(* The serialisation of a value that has fences inside a string is the     *)
(* pieces of text around those fences, with the fences between them.       *)
(***************************************************************************)
Tok(t, v) == [t |-> t, v |-> v]
Fence == Tok("fence", EmptyObj)
Tag == Tok("json", EmptyObj)
Ws == Tok("ws", EmptyObj)
Junk == Tok("junk", EmptyObj)
Json(v) == Tok("value", v)

Min(S) == CHOOSE x \in S : \A y \in S : x <= y

RECURSIVE TrimStart(_)
TrimStart(s) == IF s # <<>> /\ s[1].t = "ws" THEN TrimStart(Tail(s)) ELSE s

RECURSIVE TrimEnd(_)
TrimEnd(s) ==
    IF s # <<>> /\ s[Len(s)].t = "ws" THEN TrimEnd(SubSeq(s, 1, Len(s) - 1)) ELSE s

\* String.prototype.trim
Trim(s) == TrimEnd(TrimStart(s))

\* the string values that hold fences, and how many
OneFence == "1 fence"
TwoFences == "2 fences"
FenceCount(str) == IF str = OneFence THEN 1 ELSE IF str = TwoFences THEN 2 ELSE 0

\* the fences inside the strings of v
Ticks(v) == FenceCount(v.error)

PieceTag == <<"piece1", "piece2", "piece3">>

\* JSON.stringify(v)
JSONstringify(v) ==
    IF Ticks(v) = 0 THEN <<Json(v)>>
    ELSE [i \in 1..(2 * Ticks(v) + 1) |->
             IF i % 2 = 0 THEN Fence ELSE Tok(PieceTag[(i + 1) \div 2], v)]

\* ParseTrimmed that gives {} for a text that is no JSON
ParseTrimmedDefault(raw) ==
    IF Len(raw) = 1 /\ raw[1].t = "value"
    THEN [ok |-> TRUE, value |-> raw[1].v]
    ELSE [ok |-> TRUE, value |-> EmptyObj]

\* JSON.parse of a text without surrounding white space
ParseTrimmed(raw) ==
    IF Len(raw) = 1 /\ raw[1].t = "value"
    THEN [ok |-> TRUE, value |-> raw[1].v]
    ELSE IF raw # <<>> /\ raw[1].t = "piece1" /\ raw = JSONstringify(raw[1].v)
    THEN [ok |-> TRUE, value |-> raw[1].v]
    ELSE [ok |-> FALSE, value |-> EmptyObj]

\* JSON.parse(text): ok = FALSE models the SyntaxError it throws
JSONparse(text) == ParseTrimmed(Trim(text))

\* raw.match(/FENCE(?:json)?\s*([\s\S]*?)FENCE/), FENCE being three backticks.
\* (?:json)? : the position after the opening fence and the optional tag
AfterTag(raw, open) == IF raw[open + 1].t = "json" THEN open + 2 ELSE open + 1

\* \s* : the first position from p on that holds no white space
SkipWs(raw, p) == Min({j \in p..Len(raw) : raw[j].t # "ws"} \cup {Len(raw) + 1})

\* ([\s\S]*?)FENCE : the group runs up to the first fence at or after start
GroupUpTo(raw, start, closers) ==
    IF closers = {} THEN [matched |-> FALSE, group |-> <<>>]
    ELSE [matched |-> TRUE, group |-> SubSeq(raw, start, Min(closers) - 1)]

GroupFrom(raw, F, start) == GroupUpTo(raw, start, {j \in F : j >= start})

\* F: the positions of the fences; the match starts at the leftmost one
MatchAmong(raw, F) ==
    IF Cardinality(F) < 2 THEN [matched |-> FALSE, group |-> <<>>]
    ELSE GroupFrom(raw, F, SkipWs(raw, AfterTag(raw, Min(F))))

\* the capture group of the match, when the pattern matches
FenceMatch(raw) == MatchAmong(raw, {i \in 1..Len(raw) : raw[i].t = "fence"})

\* if (match) raw = match[1].trim();
StripFence(raw, m) == IF m.matched THEN Trim(m.group) ELSE raw

ParseRaw(raw) == JSONparse(StripFence(raw, FenceMatch(raw)))

\* parseJsonFromResponse(text)
parseJsonFromResponse(text) == ParseRaw(Trim(text))

(***************************************************************************)
(* Content blocks and responses of the Messages API.                       *)
(***************************************************************************)
NoInput == [defined |-> FALSE, timeline |-> NoField]
Input(tl) == [defined |-> TRUE, timeline |-> tl]

TextBlock(t) ==
    [type |-> "text", text |-> t, id |-> Absent, name |-> Absent, input |-> NoInput]
ToolUse(id, name, input) ==
    [type |-> "tool_use", text |-> <<>>, id |-> id, name |-> name, input |-> input]

\* toolInput || {}
OrEmptyInput(input) == IF input.defined THEN input ELSE Input(NoField)

\* content.filter((b) => b.type === "tool_use")
RECURSIVE FilterToolUse(_)
FilterToolUse(content) ==
    IF content = <<>> THEN <<>>
    ELSE IF Head(content).type = "tool_use"
         THEN <<Head(content)>> \o FilterToolUse(Tail(content))
         ELSE FilterToolUse(Tail(content))

\* response.content?.find((c) => c.type === "text")?.text || "{}"
FirstText(content, T) ==
    IF T = {} \/ content[Min(T)].text = <<>>
    THEN JSONstringify(EmptyObj)
    ELSE content[Min(T)].text

TextOf(content) == FirstText(content, {i \in 1..Len(content) : content[i].type = "text"})

\* What a client.messages.create call does: it throws, or it answers.
Throws == [threw |-> TRUE, stop_reason |-> Absent, content |-> <<>>]
Answers(stop, content) == [threw |-> FALSE, stop_reason |-> stop, content |-> content]
Says(text) == Answers("end_turn", <<TextBlock(text)>>)


(***************************************************************************)
(* What the model may write.                                               *)
(***************************************************************************)
TimelineA == <<T0>>
TimelineB == <<T1, T2>>
EvalsA == <<Eval("a1", Absent, "pass", 90), Eval("a2", Absent, "fail", 80)>>
EvalsB == <<Eval(Absent, "zz", "pass", 100), Eval("a1", Absent, "fail", 70)>>
EvalsDup == <<Eval("a1", Absent, "pass", 90), Eval("a1", "a2", "fail", 10)>>
EvalsNoId == <<Eval(Absent, Absent, "pass", 90), Eval("a2", Absent, "maybe", 150)>>
EvalsOne == <<Eval("a1", Absent, "pass", 95)>>
EvalsNull == <<NullEntry, Eval("a2", Absent, "pass", 90)>>

TextTimelineA == JSONstringify(Obj(Arr(TimelineA), NoField, Absent))
TextTimelineB ==
    <<Fence, Tag, Ws>> \o JSONstringify(Obj(Arr(TimelineB), NoField, Absent)) \o <<Ws, Fence>>
TextEvalsA == JSONstringify(Obj(NoField, Arr(EvalsA), Absent))
TextEvalsB == <<Junk, Fence>> \o JSONstringify(Obj(NoField, Arr(EvalsB), Absent)) \o <<Fence, Ws>>
TextEvalsDup == JSONstringify(Obj(NoField, Arr(EvalsDup), Absent))
TextEvalsNoId == JSONstringify(Obj(NoField, Arr(EvalsNoId), Absent))
TextEvalsOne == JSONstringify(Obj(NoField, Arr(EvalsOne), Absent))
TextEvalsNull == JSONstringify(Obj(NoField, Arr(EvalsNull), Absent))
TextEvalsEmpty == JSONstringify(Obj(NoField, Arr(<<>>), Absent))
TextNotArrays == JSONstringify(Obj(NotArr, NotArr, Absent))
TextJunk == <<Junk, Ws, Junk>>
TextHalfFence == <<Fence, Tag>> \o JSONstringify(Obj(Arr(TimelineA), NoField, Absent))

\* The answers the model gives to a describe / evaluate / batch / single request.
AllTexts ==
    {TextTimelineA, TextTimelineB, TextEvalsA, TextEvalsB, TextEvalsDup, TextEvalsNoId,
     TextEvalsOne, TextEvalsNull, TextEvalsEmpty, TextNotArrays, TextJunk, TextHalfFence}
AllOutcomes == {Throws, Answers("end_turn", <<>>)} \cup {Says(t) : t \in AllTexts}

\* The answers explored inside the agentic loop, by the tool that asks.
AgentOutcomes(toolName) ==
    {Throws, Says(TextJunk), Says(TextTimelineA), Says(TextEvalsA)}
    \cup (IF toolName = "describe_timeline" THEN {Says(TextTimelineB)} ELSE {Says(TextEvalsB)})

(***************************************************************************)
(* describeTimeline / evaluateAssertions: err is what they throw.          *)
(***************************************************************************)
\* One client.messages.create request: who issued it, the timeline (arg), the images
\* and the assertions it carries, and what the call did.
Call(fn, arg, resp, images, as) ==
    [fn |-> fn, arg |-> arg, threw |-> resp.threw, resp |-> resp,
     images |-> images, assertions |-> as]

\* buildTimelineContent / buildBatchContent / buildSingleAssertionContent: the images
SampledFrames == sampleFramesEvenly(frames, MAX_FRAMES_PER_TIMELINE_REQUEST)

\* a block of the content of a user message; frame is -1 where no frame is meant
ContentBlock(type, text, frame) == [type |-> type, text |-> text, frame |-> frame]

\* for (const frame of sampled) { content.push(caption); content.push(image) }
CaptionedImages(sampled) ==
    [j \in 1..(2 * Len(sampled)) |->
        IF j % 2 = 1
        THEN ContentBlock("text", "Frame", sampled[(j + 1) \div 2].frameIndex)
        ELSE ContentBlock("image", "", sampled[j \div 2].frameIndex)]

\* FrameBlocks over every frame, without sampling
FrameBlocksUnsampled(frs) == CaptionedImages(frs)

\* const sampled = sampleFramesEvenly(frames, MAX_FRAMES_PER_TIMELINE_REQUEST); for ...
FrameBlocks(frs) ==
    CaptionedImages(sampleFramesEvenly(frs, MAX_FRAMES_PER_TIMELINE_REQUEST))

buildTimelineContent(frs) == <<ContentBlock("text", "prompt", -1)>> \o FrameBlocks(frs)

buildBatchContent(frs, as) ==
    <<ContentBlock("text", "intro", -1)>> \o FrameBlocks(frs)
    \o <<ContentBlock("text", "assertions", -1)>>

buildSingleAssertionContent(frs, assertion) ==
    <<ContentBlock("text", "intro", -1)>> \o FrameBlocks(frs)
    \o <<ContentBlock("text", "assertion", -1)>>

\* evaluateAssertions: messages: [{ role: "user", content: userPrompt }]
EvaluationContent == <<ContentBlock("text", "prompt", -1)>>

\* a request handed to client.messages.create and awaited; content is the content
\* of the user message built for it, arg the history sent by the orchestrator
Req(fn, arg, images, as, content) ==
    [fn |-> fn, arg |-> arg, images |-> images, assertions |-> as, content |-> content]

\* Array.isArray(x) ? x : []
ArrayOrEmpty(f) == IF IsArray(f) THEN f.items ELSE <<>>

\* describeTimeline, lines 99-102: what is done with the response
TimelineOf(threw, parsed) ==
    IF threw THEN [err |-> "TransportError", timeline |-> <<>>]
    ELSE IF ~parsed.ok THEN [err |-> "SyntaxError", timeline |-> <<>>]
    ELSE [err |-> Absent, timeline |-> ArrayOrEmpty(parsed.value.timeline)]

describeTimeline(resp) ==
    TimelineOf(resp.threw, parseJsonFromResponse(TextOf(resp.content)))

\* evaluateAssertions, lines 121-124: what is done with the response
EvaluationsOf(threw, parsed) ==
    IF threw THEN [err |-> "TransportError", evaluations |-> <<>>]
    ELSE IF ~parsed.ok THEN [err |-> "SyntaxError", evaluations |-> <<>>]
    ELSE [err |-> Absent, evaluations |-> ArrayOrEmpty(parsed.value.evaluations)]

evaluateAssertions(resp) ==
    EvaluationsOf(resp.threw, parseJsonFromResponse(TextOf(resp.content)))

(***************************************************************************)
(* executeTool.  resp is what the model call made by the tool does.        *)
(* raised is what escapes to the caller (Absent: nothing), calls the       *)
(* model requests issued.                                                  *)
(***************************************************************************)
Envelope(raised, content, isError, cs) ==
    [raised |-> raised, content |-> content, isError |-> isError, calls |-> cs]

\* ErrorEnvelope without isError
ErrorEnvelopeNoFlag(message, cs) ==
    Envelope(Absent, JSONstringify(Obj(NoField, NoField, message)), Absent, cs)

ErrorEnvelope(message, cs) ==
    Envelope(Absent, JSONstringify(Obj(NoField, NoField, message)), "true", cs)

\* return { content: JSON.stringify({ timeline }) }
TimelineEnvelope(r, cs) ==
    IF r.err # Absent THEN Envelope(r.err, <<>>, Absent, cs)
    ELSE Envelope(Absent, JSONstringify(Obj(Arr(r.timeline), NoField, Absent)), Absent, cs)

\* return { content: JSON.stringify({ evaluations: list }) }
EvaluationsEnvelope(r, cs) ==
    IF r.err # Absent THEN Envelope(r.err, <<>>, Absent, cs)
    ELSE Envelope(Absent, JSONstringify(Obj(NoField, Arr(r.evaluations), Absent)), Absent, cs)

\* ToolBody whose evaluate_assertions reads the timeline accumulator of the caller
ToolBodyAccumulator(toolName, toolInput, resp) ==
    IF toolName = "describe_timeline"
    THEN TimelineEnvelope(describeTimeline(resp),
                          <<Call("describeTimeline", <<>>, resp, SampledFrames, <<>>)>>)
    ELSE IF toolName = "evaluate_assertions"
    THEN EvaluationsEnvelope(
             evaluateAssertions(resp),
             <<Call("evaluateAssertions", timeline, resp, <<>>, assertions)>>)
    ELSE ErrorEnvelope("Unknown tool: " \o toolName, <<>>)

\* the body of the try block
ToolBody(toolName, toolInput, resp) ==
    IF toolName = "describe_timeline"
    THEN TimelineEnvelope(describeTimeline(resp),
                          <<Call("describeTimeline", <<>>, resp, SampledFrames, <<>>)>>)
    ELSE IF toolName = "evaluate_assertions"
    THEN IF ~toolInput.defined THEN Envelope("TypeError", <<>>, Absent, <<>>)
         ELSE EvaluationsEnvelope(
                  evaluateAssertions(resp),
                  <<Call("evaluateAssertions", ArrayOrEmpty(toolInput.timeline), resp,
                         <<>>, assertions)>>)
    ELSE ErrorEnvelope("Unknown tool: " \o toolName, <<>>)

\* the request executeTool is suspended on while its primitive awaits the model
ToolRequests(toolName, toolInput) ==
    IF toolName = "describe_timeline"
    THEN <<Req("describeTimeline", <<>>, SampledFrames, <<>>,
               buildTimelineContent(frames))>>
    ELSE IF toolName = "evaluate_assertions" /\ toolInput.defined
    THEN <<Req("evaluateAssertions", ArrayOrEmpty(toolInput.timeline), <<>>, assertions,
               EvaluationContent)>>
    ELSE <<>>

\* catch (err) { return { content: JSON.stringify({ error: ... }), isError: true } }
Catch(b) == IF b.raised # Absent THEN ErrorEnvelope(b.raised, b.calls) ELSE b

\* executeTool without its try / catch
executeToolNoCatch(toolName, toolInput, resp) == ToolBody(toolName, toolInput, resp)

\* executeTool
executeTool(toolName, toolInput, resp) == Catch(ToolBody(toolName, toolInput, resp))

(***************************************************************************)
(* Map<id, evaluation> as a function from its keys.                        *)
(***************************************************************************)
EmptyMap == <<>>
MapSet(m, k, v) == [x \in (DOMAIN m) \cup {k} |-> IF x = k THEN v ELSE m[x]]
Keys(m) == DOMAIN m

\* const id = e.assertionId || e.id; if (id) byId.set(id, e);
SetById(m, e, id) == IF Truthy(id) THEN MapSet(m, id, e) ELSE m

\* for (const e of list) { ... }
RECURSIVE SetAllById(_, _)
SetAllById(m, list) ==
    IF list = <<>> THEN m
    ELSE SetAllById(SetById(m, Head(list), Or(Head(list).assertionId, Head(list).id)),
                    Tail(list))

(***************************************************************************)
(* runAgenticPipeline.                                                     *)
(***************************************************************************)
Msg(role, content) == [role |-> role, content |-> content]

\* getOrchestratorUserPrompt(assertions): one line per assertion
OrchestratorUserPrompt(as) == [type |-> "prompt", ids |-> [i \in 1..Len(as) |-> as[i].id]]

\* ToolResult that labels every result with the id of the first block
ToolResultFirstId(toolUseId, result) ==
    [type |-> "tool_result", tool_use_id |-> "toolu_1",
     content |-> result.content, is_error |-> (result.isError = "true")]

ToolResult(toolUseId, result) ==
    [type |-> "tool_result", tool_use_id |-> toolUseId,
     content |-> result.content, is_error |-> (result.isError = "true")]

\* ParsedTimeline that appends the parsed array to the accumulator
ParsedTimelineAppend(tl, parsed) ==
    IF parsed.ok /\ IsArray(parsed.value.timeline)
    THEN tl \o parsed.value.timeline.items ELSE tl

\* try { const parsed = JSON.parse(result.content);
\*       if (Array.isArray(parsed.timeline)) timeline = parsed.timeline; } catch (_) {}
ParsedTimeline(tl, parsed) ==
    IF parsed.ok /\ IsArray(parsed.value.timeline) THEN parsed.value.timeline.items ELSE tl

\* if (toolName === "describe_timeline" && !result.isError) { ... }
HarvestTimeline(tl, toolName, result) ==
    IF toolName = "describe_timeline" /\ result.isError # "true"
    THEN ParsedTimeline(tl, JSONparse(result.content))
    ELSE tl

\* ParsedEvaluations that starts from an empty map at every result
ParsedEvaluationsFresh(m, parsed) ==
    IF parsed.ok THEN SetAllById(EmptyMap, ArrayOrEmpty(parsed.value.evaluations)) ELSE m

\* try { const parsed = JSON.parse(result.content); const list = ...;
\*       for (const e of list) { ... } } catch (_) {}
ParsedEvaluations(m, parsed) ==
    IF parsed.ok THEN SetAllById(m, ArrayOrEmpty(parsed.value.evaluations)) ELSE m

\* if (toolName === "evaluate_assertions" && !result.isError) { ... }
HarvestEvaluations(m, toolName, result) ==
    IF toolName = "evaluate_assertions" /\ result.isError # "true"
    THEN ParsedEvaluations(m, JSONparse(result.content))
    ELSE m

(***************************************************************************)
(* The orchestrating model: what it may answer in the current state.  It   *)
(* asks for at most MaxBlocksPerTurn tools in a response and MaxToolCalls  *)
(* in a run, says something before the tools it asks for, and once it has  *)
(* answered "tool_use" without asking for a tool it asks for none later.   *)
(***************************************************************************)
ToolUseIds == <<"toolu_1", "toolu_2", "toolu_3", "toolu_4">>
Prose == <<Junk>>
ToolKinds ==
    {[name |-> "describe_timeline", input |-> Input(NoField)],
     [name |-> "evaluate_assertions", input |-> Input(Arr(TimelineA))],
     [name |-> "evaluate_assertions", input |-> NoInput],
     [name |-> "zoom_in", input |-> Input(NoField)]}

\* the tool results sent back so far
RECURSIVE ToolResultCount(_)
ToolResultCount(msgs) ==
    IF Len(msgs) <= 1 THEN 0
    ELSE (IF msgs[Len(msgs)].role = "user" THEN Len(msgs[Len(msgs)].content) ELSE 0)
         + ToolResultCount(SubSeq(msgs, 1, Len(msgs) - 1))

ToolContents(n) ==
    {[i \in 1..n |-> ToolUse(ToolUseIds[i], f[i].name, f[i].input)] : f \in [1..n -> ToolKinds]}

ToolsLeft ==
    IF messages[Len(messages)].content = <<>> /\ turn < MAX_AGENT_TURNS - 1 THEN 0
    ELSE MaxToolCalls - ToolResultCount(messages)

AtMost(a, b) == IF a < b THEN a ELSE b

OrchestratorResponses ==
    {Throws,
     Answers("end_turn", <<>>),
     Answers("end_turn", <<TextBlock(Prose)>>),
     Answers("max_tokens",
             <<TextBlock(Prose), ToolUse(ToolUseIds[1], "describe_timeline", Input(NoField))>>),
     Answers("tool_use", <<>>)}
    \cup {Answers("tool_use", <<TextBlock(Prose)>> \o c) :
            c \in UNION {ToolContents(n) : n \in 1..AtMost(ToolsLeft, MaxBlocksPerTurn)}}

\* lines 61-68: the request the tool loop awaits at toolUseBlocks[i], if any
BlockRequest(blocks, i) ==
    IF i <= Len(blocks)
    THEN ToolRequests(blocks[i].name, OrEmptyInput(blocks[i].input))
    ELSE <<>>

InputAssertions(n) == [i \in 1..n |-> [id |-> AssertionIds[i], testStepId |-> StepIds[i]]]

InitAgentic ==
    /\ strategy = "agentic"
    /\ assertions = InputAssertions(MaxAssertions)
    /\ pc = "request"
    /\ error = Absent
    /\ turn = 0
    /\ stop_reason = Absent
    /\ messages = <<Msg("user", <<OrchestratorUserPrompt(assertions)>>)>>
    /\ timeline = <<>>
    /\ evaluationsById = EmptyMap
    /\ toolUseBlocks = <<>>
    /\ toolResults = <<>>
    /\ idx = 0
    /\ calls = <<>>
    /\ toolCall = Absent
    /\ envelope = Absent
    /\ frames = Frames(MaxExtraFrames)
    /\ args = Absent
    /\ ret = <<>>
    /\ pending = <<Req("orchestrator", messages, <<>>, assertions, <<>>)>>

\* Respond that goes on whenever the response holds a tool_use block
RespondByContent(resp) ==
    IF resp.threw
    THEN /\ pc' = "threw"
         /\ error' = "TransportError"
         /\ pending' = <<>>
         /\ UNCHANGED <<stop_reason, messages, toolUseBlocks, toolResults>>
    ELSE /\ messages' = Append(messages, Msg("assistant", resp.content))
         /\ stop_reason' = resp.stop_reason
         /\ error' = error
         /\ IF resp.stop_reason # "tool_use" /\ FilterToolUse(resp.content) = <<>>
            THEN /\ pc' = "returned"
                 /\ pending' = <<>>
                 /\ UNCHANGED <<toolUseBlocks, toolResults>>
            ELSE /\ pc' = "tools"
                 /\ toolUseBlocks' = FilterToolUse(resp.content)
                 /\ toolResults' = <<>>
                 /\ pending' = BlockRequest(FilterToolUse(resp.content), 1)

\* Respond that keeps only the tool_use blocks of the response in the history
RespondToolUseOnly(resp) ==
    IF resp.threw
    THEN /\ pc' = "threw"
         /\ error' = "TransportError"
         /\ pending' = <<>>
         /\ UNCHANGED <<stop_reason, messages, toolUseBlocks, toolResults>>
    ELSE /\ messages' = Append(messages, Msg("assistant", FilterToolUse(resp.content)))
         /\ stop_reason' = resp.stop_reason
         /\ error' = error
         /\ IF resp.stop_reason # "tool_use"
            THEN /\ pc' = "returned"
                 /\ pending' = <<>>
                 /\ UNCHANGED <<toolUseBlocks, toolResults>>
            ELSE /\ pc' = "tools"
                 /\ toolUseBlocks' = FilterToolUse(resp.content)
                 /\ toolResults' = <<>>
                 /\ pending' = BlockRequest(FilterToolUse(resp.content), 1)

\* lines 45-59: the response is appended; break, or collect the tool_use blocks
Respond(resp) ==
    IF resp.threw
    THEN /\ pc' = "threw"
         /\ error' = "TransportError"
         /\ pending' = <<>>
         /\ UNCHANGED <<stop_reason, messages, toolUseBlocks, toolResults>>
    ELSE /\ messages' = Append(messages, Msg("assistant", resp.content))
         /\ stop_reason' = resp.stop_reason
         /\ error' = error
         /\ IF resp.stop_reason # "tool_use"
            THEN /\ pc' = "returned"
                 /\ pending' = <<>>
                 /\ UNCHANGED <<toolUseBlocks, toolResults>>
            ELSE /\ pc' = "tools"
                 /\ toolUseBlocks' = FilterToolUse(resp.content)
                 /\ toolResults' = <<>>
                 /\ pending' = BlockRequest(FilterToolUse(resp.content), 1)

\* lines 36-59: one orchestrator request, up to the start of the tool loop
AgentRequest ==
    /\ strategy = "agentic"
    /\ pc = "request"
    /\ \E resp \in OrchestratorResponses :
          /\ calls' = Append(calls, Call("orchestrator", <<>>, resp, <<>>, assertions))
          /\ Respond(resp)
    /\ UNCHANGED <<strategy, assertions, turn, timeline, evaluationsById, idx,
                   toolCall, envelope, frames, args, ret>>

\* Harvest that leaves the accumulators alone in the last turn of the budget
HarvestNotLast(block, result) ==
    /\ calls' = calls \o result.calls
    /\ IF result.raised # Absent
       THEN /\ pc' = "threw"
            /\ error' = result.raised
            /\ pending' = <<>>
            /\ UNCHANGED <<toolResults, timeline, evaluationsById>>
       ELSE /\ toolResults' = Append(toolResults, ToolResult(block.id, result))
            /\ pending' = BlockRequest(toolUseBlocks, Len(toolResults) + 2)
            /\ timeline' = IF turn = MAX_AGENT_TURNS - 1 THEN timeline
                           ELSE HarvestTimeline(timeline, block.name, result)
            /\ evaluationsById' =
                   IF turn = MAX_AGENT_TURNS - 1 THEN evaluationsById
                   ELSE HarvestEvaluations(evaluationsById, block.name, result)
            /\ UNCHANGED <<pc, error>>

\* lines 70-93: the tool result is pushed and harvested
Harvest(block, result) ==
    /\ calls' = calls \o result.calls
    /\ IF result.raised # Absent
       THEN /\ pc' = "threw"
            /\ error' = result.raised
            /\ pending' = <<>>
            /\ UNCHANGED <<toolResults, timeline, evaluationsById>>
       ELSE /\ toolResults' = Append(toolResults, ToolResult(block.id, result))
            /\ pending' = BlockRequest(toolUseBlocks, Len(toolResults) + 2)
            /\ timeline' = HarvestTimeline(timeline, block.name, result)
            /\ evaluationsById' = HarvestEvaluations(evaluationsById, block.name, result)
            /\ UNCHANGED <<pc, error>>

\* ExecBlock that runs a tool once more when it came back with an error envelope
ExecBlockRetry(block) ==
    \E resp \in (IF block.name \in {"describe_timeline", "evaluate_assertions"}
                 THEN AgentOutcomes(block.name) ELSE {Throws}) :
       Harvest(block,
               [executeTool(block.name, OrEmptyInput(block.input), resp) EXCEPT
                   !.calls = IF executeTool(block.name, OrEmptyInput(block.input),
                                            resp).isError = "true"
                             THEN @ \o @ ELSE @])

\* lines 62-68: executeTool({ toolName, toolInput: toolInput || {}, context })
ExecBlock(block) ==
    \E resp \in (IF block.name \in {"describe_timeline", "evaluate_assertions"}
                 THEN AgentOutcomes(block.name) ELSE {Throws}) :
       Harvest(block, executeTool(block.name, OrEmptyInput(block.input), resp))

\* lines 61-94: one iteration of for (const block of toolUseBlocks)
AgentExecTool ==
    /\ strategy = "agentic"
    /\ pc = "tools"
    /\ Len(toolResults) < Len(toolUseBlocks)
    /\ ExecBlock(toolUseBlocks[Len(toolResults) + 1])
    /\ UNCHANGED <<strategy, assertions, turn, stop_reason, messages, toolUseBlocks, idx,
                   toolCall, envelope, frames, args, ret>>

\* AgentAppendResults with the loop condition turn <= MAX_AGENT_TURNS
AgentAppendResultsOneMore ==
    /\ strategy = "agentic"
    /\ pc = "tools"
    /\ Len(toolResults) = Len(toolUseBlocks)
    /\ messages' = Append(messages, Msg("user", toolResults))
    /\ turn' = turn + 1
    /\ pc' = IF turn + 1 <= MAX_AGENT_TURNS THEN "request" ELSE "returned"
    /\ pending' = IF turn + 1 <= MAX_AGENT_TURNS
                  THEN <<Req("orchestrator", messages', <<>>, assertions, <<>>)>> ELSE <<>>
    /\ UNCHANGED <<strategy, assertions, error, stop_reason, timeline, evaluationsById,
                   toolUseBlocks, toolResults, idx, calls, toolCall, envelope, frames, args, ret>>

\* lines 96-101 and 35: the tool results go back as one user turn; next turn or return
AgentAppendResults ==
    /\ strategy = "agentic"
    /\ pc = "tools"
    /\ Len(toolResults) = Len(toolUseBlocks)
    /\ messages' = Append(messages, Msg("user", toolResults))
    /\ turn' = turn + 1
    /\ pc' = IF turn + 1 < MAX_AGENT_TURNS THEN "request" ELSE "returned"
    /\ pending' = IF turn + 1 < MAX_AGENT_TURNS
                  THEN <<Req("orchestrator", messages', <<>>, assertions, <<>>)>> ELSE <<>>
    /\ UNCHANGED <<strategy, assertions, error, stop_reason, timeline, evaluationsById,
                   toolUseBlocks, toolResults, idx, calls, toolCall, envelope, frames, args, ret>>

NextAgentic == AgentRequest \/ AgentExecTool \/ AgentAppendResults

SpecAgentic == InitAgentic /\ [][NextAgentic]_vars


(***************************************************************************)
(* The three fixed strategies.  Each operator is what the pipeline does    *)
(* with the model response it awaited: err is what it rejects with.        *)
(***************************************************************************)
Outcome(err, tl, m) == [err |-> err, timeline |-> tl, evaluations |-> m]

\* lines 212-223 of runBatchPipeline, lines 301-310 of runTwoPassPipeline
\* for (const e of evaluations) { const id = e.assertionId || e.id; ... }:
\* reading a property of null throws
KeyedResult(tl, r) ==
    IF r.err # Absent THEN Outcome(r.err, tl, EmptyMap)
    ELSE IF \E i \in 1..Len(r.evaluations) : IsNull(r.evaluations[i])
    THEN Outcome("TypeError", tl, EmptyMap)
    ELSE Outcome(Absent, tl, SetAllById(EmptyMap, r.evaluations))

\* BatchResult that also returns the timeline found in the response
BatchResultWithTimeline(resp) ==
    KeyedResult(ArrayOrEmpty(parseJsonFromResponse(TextOf(resp.content)).value.timeline),
                EvaluationsOf(resp.threw, parseJsonFromResponse(TextOf(resp.content))))

\* runBatchPipeline, lines 210-223
BatchResult(resp) ==
    KeyedResult(<<>>, EvaluationsOf(resp.threw, parseJsonFromResponse(TextOf(resp.content))))

\* SingleSet that stores nothing when there is no evaluation
SingleSetNoFallback(byId, assertion, evaluations) ==
    IF evaluations # <<>> /\ ~IsNull(evaluations[1])
    THEN MapSet(byId,
                Or(Or(evaluations[1].assertionId, evaluations[1].id), assertion.id),
                evaluations[1])
    ELSE byId

\* runSinglePipeline, lines 253-259
SingleSet(byId, assertion, evaluations) ==
    IF evaluations # <<>> /\ ~IsNull(evaluations[1])
    THEN MapSet(byId,
                Or(Or(evaluations[1].assertionId, evaluations[1].id), assertion.id),
                evaluations[1])
    ELSE MapSet(byId, assertion.id, FallbackEval(assertion.id))

\* runSinglePipeline, lines 246-252: try { ... } catch (_) { }
SingleEvaluations(parsed) ==
    IF parsed.ok THEN ArrayOrEmpty(parsed.value.evaluations) ELSE <<>>

\* SingleStep whose try / catch also encloses the request
SingleStepCatchAll(byId, assertion, resp) ==
    IF resp.threw THEN Outcome(Absent, <<>>, SingleSet(byId, assertion, <<>>))
    ELSE Outcome(Absent, <<>>,
                 SingleSet(byId, assertion,
                           SingleEvaluations(parseJsonFromResponse(TextOf(resp.content)))))

\* runSinglePipeline, lines 245-259: one iteration of for (const assertion of assertions)
SingleStep(byId, assertion, resp) ==
    IF resp.threw THEN Outcome("TransportError", <<>>, byId)
    ELSE Outcome(Absent, <<>>,
                 SingleSet(byId, assertion,
                           SingleEvaluations(parseJsonFromResponse(TextOf(resp.content)))))

\* TwoPassResult that returns an empty timeline
TwoPassResultNoTimeline(tl, resp) == KeyedResult(<<>>, evaluateAssertions(resp))

\* runTwoPassPipeline, lines 292-310: the second pass and the result
TwoPassResult(tl, resp) == KeyedResult(tl, evaluateAssertions(resp))

Strategies == {"single", "batch", "two-pass", "three-pass", Absent}

InitStrategies ==
    /\ strategy \in Strategies
    /\ \E n \in 0..MaxAssertions : assertions = InputAssertions(n)
    /\ pc = "runPipeline"
    /\ error = Absent
    /\ turn = 0
    /\ stop_reason = Absent
    /\ messages = <<>>
    /\ timeline = <<>>
    /\ evaluationsById = EmptyMap
    /\ toolUseBlocks = <<>>
    /\ toolResults = <<>>
    /\ idx = 1
    /\ calls = <<>>
    /\ toolCall = Absent
    /\ envelope = Absent
    /\ frames \in {Frames(0), Frames(MAX_FRAMES_PER_TIMELINE_REQUEST + MaxExtraFrames)}
    /\ args = Absent
    /\ ret = <<>>
    /\ pending = <<>>

\* the names loadSettings does not report as not implemented
SUPPORTED_STRATEGIES == {"two-pass", "batch", "single"}

\* Dispatch that falls back to the batch pipeline
DispatchDefaultBatch(st) ==
    IF st = "single" THEN "single" ELSE IF st = "two-pass" THEN "pass1" ELSE "batch"

\* const strategy = opts.strategy || "two-pass"; ...
Dispatch(st) ==
    IF st = "single" THEN "single" ELSE IF st = "batch" THEN "batch" ELSE "pass1"

\* SingleRequest that starts every remaining request at once
SingleRequestAll(i) ==
    [j \in 1..(Len(assertions) + 1 - i) |->
        Req("single", <<>>, SampledFrames, <<assertions[i + j - 1]>>,
            buildSingleAssertionContent(frames, assertions[i + j - 1]))]

\* runSinglePipeline: for (const assertion of assertions) { await create(...) }
SingleRequest(i) ==
    IF i <= Len(assertions)
    THEN <<Req("single", <<>>, SampledFrames, <<assertions[i]>>,
               buildSingleAssertionContent(frames, assertions[i]))>>
    ELSE <<>>

\* the first request of the pipeline that was entered
FirstRequest(p) ==
    IF p = "single" THEN SingleRequest(1)
    ELSE IF p = "batch"
    THEN <<Req("batch", <<>>, SampledFrames, assertions, buildBatchContent(frames, assertions))>>
    ELSE <<Req("describeTimeline", <<>>, SampledFrames, <<>>,
               buildTimelineContent(frames))>>

\* runPipeline
RunPipeline ==
    /\ pc = "runPipeline"
    /\ pc' = Dispatch(Or(strategy, "two-pass"))
    /\ pending' = FirstRequest(Dispatch(Or(strategy, "two-pass")))
    /\ UNCHANGED <<strategy, assertions, error, turn, stop_reason, messages, timeline,
                   evaluationsById, toolUseBlocks, toolResults, idx, calls,
                   toolCall, envelope, frames, args, ret>>

\* the pipeline settles: it returns { timeline, evaluations } or rejects with err
Finish(r) ==
    /\ error' = r.err
    /\ pc' = IF r.err # Absent THEN "threw" ELSE "returned"
    /\ pending' = <<>>
    /\ timeline' = r.timeline
    /\ evaluationsById' = r.evaluations

\* runBatchPipeline
BatchCall ==
    /\ pc = "batch"
    /\ \E resp \in AllOutcomes :
          /\ Finish(BatchResult(resp))
          /\ calls' = Append(calls, Call("batch", <<>>, resp, SampledFrames, assertions))
    /\ UNCHANGED <<strategy, assertions, turn, stop_reason, messages, toolUseBlocks,
                   toolResults, idx, toolCall, envelope, frames, args, ret>>

\* runSinglePipeline: the loop goes on unless the request threw
SingleNext(r) ==
    /\ error' = r.err
    /\ pc' = IF r.err # Absent THEN "threw" ELSE "single"
    /\ pending' = IF r.err # Absent THEN <<>> ELSE SingleRequest(idx + 1)
    /\ evaluationsById' = r.evaluations

\* SingleCall whose request lists every assertion
SingleCallAll ==
    /\ pc = "single"
    /\ idx <= Len(assertions)
    /\ \E resp \in AllOutcomes :
          /\ SingleNext(SingleStep(evaluationsById, assertions[idx], resp))
          /\ calls' = Append(calls, Call("single", <<>>, resp, SampledFrames, assertions))
    /\ idx' = idx + 1
    /\ UNCHANGED <<strategy, assertions, turn, stop_reason, messages, timeline,
                   toolUseBlocks, toolResults, toolCall, envelope, frames, args, ret>>

\* runSinglePipeline: one request and what is done with its response
SingleCall ==
    /\ pc = "single"
    /\ idx <= Len(assertions)
    /\ \E resp \in AllOutcomes :
          /\ SingleNext(SingleStep(evaluationsById, assertions[idx], resp))
          /\ calls' = Append(calls, Call("single", <<>>, resp, SampledFrames,
                                      <<assertions[idx]>>))
    /\ idx' = idx + 1
    /\ UNCHANGED <<strategy, assertions, turn, stop_reason, messages, timeline,
                   toolUseBlocks, toolResults, toolCall, envelope, frames, args, ret>>

\* runSinglePipeline: the loop is over, return { timeline: [], evaluations: byId }
SingleReturn ==
    /\ pc = "single"
    /\ idx > Len(assertions)
    /\ pc' = "returned"
    /\ UNCHANGED <<strategy, assertions, error, turn, stop_reason, messages, timeline,
                   evaluationsById, toolUseBlocks, toolResults, idx, calls,
                   toolCall, envelope, frames, args, ret, pending>>

\* runTwoPassPipeline: pass 2 follows unless pass 1 threw
PassOne(r) ==
    /\ error' = r.err
    /\ pc' = IF r.err # Absent THEN "threw" ELSE "pass2"
    /\ pending' = IF r.err # Absent THEN <<>>
                  ELSE <<Req("evaluateAssertions", r.timeline, <<>>, assertions,
                           EvaluationContent)>>
    /\ timeline' = r.timeline

\* runTwoPassPipeline: pass 1
TwoPassDescribe ==
    /\ pc = "pass1"
    /\ \E resp \in AllOutcomes :
          /\ PassOne(describeTimeline(resp))
          /\ calls' = Append(calls, Call("describeTimeline", <<>>, resp, SampledFrames, <<>>))
    /\ UNCHANGED <<strategy, assertions, turn, stop_reason, messages, evaluationsById,
                   toolUseBlocks, toolResults, idx, toolCall, envelope, frames, args, ret>>

\* runTwoPassPipeline: pass 2
TwoPassEvaluate ==
    /\ pc = "pass2"
    /\ \E resp \in AllOutcomes :
          /\ Finish(TwoPassResult(timeline, resp))
          /\ calls' = Append(calls, Call("evaluateAssertions", timeline, resp, <<>>,
                                      assertions))
    /\ UNCHANGED <<strategy, assertions, turn, stop_reason, messages, toolUseBlocks,
                   toolResults, idx, toolCall, envelope, frames, args, ret>>

NextStrategies ==
    RunPipeline \/ BatchCall \/ SingleCall \/ SingleReturn \/ TwoPassDescribe
    \/ TwoPassEvaluate

SpecStrategies == InitStrategies /\ [][NextStrategies]_vars

(***************************************************************************)
(* executeTool called on its own, with any name, input and model outcome.  *)
(***************************************************************************)
ToolNames == {"describe_timeline", "evaluate_assertions", "zoom_in", ""}
ToolInputs == {NoInput, Input(NoField), Input(NotArr), Input(Arr(TimelineB))}

InitTool ==
    /\ strategy = "tool"
    /\ assertions = InputAssertions(MaxAssertions)
    /\ pc = "executeTool"
    /\ error = Absent
    /\ turn = 0
    /\ stop_reason = Absent
    /\ messages = <<>>
    /\ timeline = <<>>
    /\ evaluationsById = EmptyMap
    /\ toolUseBlocks = <<>>
    /\ toolResults = <<>>
    /\ idx = 0
    /\ calls = <<>>
    /\ toolCall \in [toolName : ToolNames, toolInput : ToolInputs, resp : AllOutcomes]
    /\ envelope = Absent
    /\ frames = Frames(MaxExtraFrames)
    /\ args = Absent
    /\ ret = <<>>
    /\ pending = ToolRequests(toolCall.toolName, toolCall.toolInput)

\* the caller of executeTool gets the envelope, or what escaped
Settle(result) ==
    /\ envelope' = result
    /\ calls' = result.calls
    /\ error' = result.raised
    /\ pc' = IF result.raised # Absent THEN "threw" ELSE "returned"
    /\ pending' = <<>>

ToolCall ==
    /\ pc = "executeTool"
    /\ Settle(executeTool(toolCall.toolName, toolCall.toolInput, toolCall.resp))
    /\ UNCHANGED <<strategy, assertions, turn, stop_reason, messages, timeline,
                   evaluationsById, toolUseBlocks, toolResults, idx, toolCall,
                   frames, args, ret>>

NextTool == ToolCall

SpecTool == InitTool /\ [][NextTool]_vars

(***************************************************************************)
(* sampleFramesEvenly called on its own, and once more on what it returned.*)
(***************************************************************************)
InitSample ==
    /\ strategy = "sampleFramesEvenly"
    /\ assertions = <<>>
    /\ pc = "sample"
    /\ error = Absent
    /\ turn = 0
    /\ stop_reason = Absent
    /\ messages = <<>>
    /\ timeline = <<>>
    /\ evaluationsById = EmptyMap
    /\ toolUseBlocks = <<>>
    /\ toolResults = <<>>
    /\ idx = 0
    /\ calls = <<>>
    /\ toolCall = Absent
    /\ envelope = Absent
    /\ \E n \in 0..MaxFrames : frames = Frames(n)
    /\ \E m \in 1..MaxFrames : args = [maxFrames |-> m]
    /\ ret = <<>>
    /\ pending = <<>>

\* the frames the next call is given: the input, then the previous result
NextFrames == IF ret = <<>> THEN frames ELSE ret[Len(ret)]

SampleCall ==
    /\ strategy = "sampleFramesEvenly"
    /\ pc = "sample"
    /\ ret' = Append(ret, sampleFramesEvenly(NextFrames, args.maxFrames))
    /\ pc' = IF ret = <<>> THEN "sample" ELSE "returned"
    /\ UNCHANGED <<strategy, assertions, error, turn, stop_reason, messages, timeline,
                   evaluationsById, toolUseBlocks, toolResults, idx, calls,
                   toolCall, envelope, frames, args, pending>>

NextSample == SampleCall

SpecSample == InitSample /\ [][NextSample]_vars

(***************************************************************************)
(* parseJsonFromResponse called on its own.                                *)
(***************************************************************************)
JsonValues ==
    {Obj(tl, ev, err) : tl \in {NoField, NotArr, Arr(TimelineA)},
                        ev \in {NoField, Arr(EvalsA)},
                        err \in {Absent, "Unknown tool: zoom_in", OneFence, TwoFences}}

\* s as it is, and inside a fenced block
Bare(s) == s
Fenced(s) == <<Fence>> \o s \o <<Fence>>
FencedJson(s) == <<Fence, Tag>> \o s \o <<Fence>>

ParseTexts ==
    UNION {{Bare(JSONstringify(v)),
            <<Ws>> \o JSONstringify(v) \o <<Ws>>,
            Fenced(JSONstringify(v)),
            FencedJson(JSONstringify(v)),
            <<Fence, Tag, Ws>> \o JSONstringify(v) \o <<Ws, Fence>>,
            <<Junk, Ws, Fence>> \o JSONstringify(v) \o <<Fence, Ws, Junk>>,
            JSONstringify(v) \o <<Junk>>} : v \in JsonValues}
    \cup {<<>>, <<Ws>>, <<Junk>>, <<Fence>>, <<Fence, Fence>>, <<Fence, Tag, Fence>>,
          <<Fence, Junk, Fence>>, TextHalfFence, TextJunk}

NoText == [defined |-> FALSE, text |-> <<>>]
Text(t) == [defined |-> TRUE, text |-> t]

\* (text || "")
TextOrEmpty(a) == IF a.defined THEN a.text ELSE <<>>

InitParse ==
    /\ strategy = "parseJsonFromResponse"
    /\ assertions = <<>>
    /\ pc = "parse"
    /\ error = Absent
    /\ turn = 0
    /\ stop_reason = Absent
    /\ messages = <<>>
    /\ timeline = <<>>
    /\ evaluationsById = EmptyMap
    /\ toolUseBlocks = <<>>
    /\ toolResults = <<>>
    /\ idx = 0
    /\ calls = <<>>
    /\ toolCall = Absent
    /\ envelope = Absent
    /\ frames = <<>>
    /\ args \in {NoText} \cup {Text(t) : t \in ParseTexts}
    /\ ret = <<>>
    /\ pending = <<>>

\* the caller gets the value, or the SyntaxError of JSON.parse
ParseSettle(parsed) ==
    /\ ret' = <<parsed>>
    /\ error' = IF parsed.ok THEN Absent ELSE "SyntaxError"
    /\ pc' = IF parsed.ok THEN "returned" ELSE "threw"

ParseCall ==
    /\ strategy = "parseJsonFromResponse"
    /\ pc = "parse"
    /\ ParseSettle(parseJsonFromResponse(TextOrEmpty(args)))
    /\ UNCHANGED <<strategy, assertions, turn, stop_reason, messages, timeline,
                   evaluationsById, toolUseBlocks, toolResults, idx, calls,
                   toolCall, envelope, frames, args, pending>>

NextParse == ParseCall

SpecParse == InitParse /\ [][NextParse]_vars

(***************************************************************************)
(* The output of run(): groupByTestStep and the assertions of each step,   *)
(* built from the loaded assertions and the map a pipeline returned.       *)
(***************************************************************************)
\* StepIdOf without the default name
StepIdOfRaw(a) == a.testStepId

\* const stepId = a.testStepId || "default"
StepIdOf(a) == Or(a.testStepId, "default")

\* the keys of byStep in insertion order
RECURSIVE StepOrder(_)
StepOrder(as) ==
    IF as = <<>> THEN <<>>
    ELSE IF \E i \in 1..(Len(as) - 1) : StepIdOf(as[i]) = StepIdOf(as[Len(as)])
    THEN StepOrder(SubSeq(as, 1, Len(as) - 1))
    ELSE Append(StepOrder(SubSeq(as, 1, Len(as) - 1)), StepIdOf(as[Len(as)]))

StepsInOrder(as, order) ==
    [k \in 1..Len(order) |->
        [id |-> order[k],
         assertions |-> SelectSeq(as, LAMBDA a : StepIdOf(a) = order[k])]]

\* groupByTestStep
groupByTestStep(as) == StepsInOrder(as, StepOrder(as))

\* const ev = evaluations.get(a.id) || {}; return { id, verdict, confidence, ... }
OutputAssertion(a, evs) ==
    IF a.id \in Keys(evs)
    THEN [id |-> a.id,
          verdict |-> Or(evs[a.id].verdict, "uncertain"),
          confidence |-> evs[a.id].confidence,
          evidence |-> ArrayOrEmpty(evs[a.id].evidence),
          explanation |-> Or(evs[a.id].explanation, "")]
    ELSE [id |-> a.id, verdict |-> "uncertain", confidence |-> 0,
          evidence |-> <<>>, explanation |-> ""]

\* steps.map((step) => ({ id: step.id, ..., assertions: step.assertions.map(...) }))
TestStepsOf(steps, evs) ==
    [k \in 1..Len(steps) |->
        [id |-> steps[k].id,
         assertions |-> [j \in 1..Len(steps[k].assertions) |->
                            OutputAssertion(steps[k].assertions[j], evs)]]]

\* the testStepId values loadAssertions can give: item.testStepId ?? ... keeps ""
LoadedStepIds == {"s1", "s2", ""}

\* the maps a pipeline can have returned
ResultMaps ==
    {SetAllById(EmptyMap, l) :
        l \in {<<>>, EvalsA, EvalsB, EvalsDup, EvalsNoId, EvalsOne}}
    \cup {MapSet(EmptyMap, "a1", FallbackEval("a1"))}

InitOutput ==
    /\ strategy = "run"
    /\ \E n \in 1..MaxAggregated : \E f \in [1..n -> LoadedStepIds] :
          assertions = [i \in 1..n |-> [id |-> AssertionIds[i], testStepId |-> f[i]]]
    /\ pc = "aggregate"
    /\ error = Absent
    /\ turn = 0
    /\ stop_reason = Absent
    /\ messages = <<>>
    /\ timeline = <<>>
    /\ evaluationsById \in ResultMaps
    /\ toolUseBlocks = <<>>
    /\ toolResults = <<>>
    /\ idx = 0
    /\ calls = <<>>
    /\ toolCall = Absent
    /\ envelope = Absent
    /\ frames = <<>>
    /\ args = Absent
    /\ ret = <<>>
    /\ pending = <<>>

\* run(): const steps = groupByTestStep(assertions); const testSteps = steps.map(...)
Aggregate ==
    /\ strategy = "run"
    /\ pc = "aggregate"
    /\ ret' = <<TestStepsOf(groupByTestStep(assertions), evaluationsById)>>
    /\ pc' = "returned"
    /\ UNCHANGED <<strategy, assertions, error, turn, stop_reason, messages, timeline,
                   evaluationsById, toolUseBlocks, toolResults, idx, calls,
                   toolCall, envelope, frames, args, pending>>

NextOutput == Aggregate

SpecOutput == InitOutput /\ [][NextOutput]_vars

(***************************************************************************)
(* Every entry point of the core.                                          *)
(***************************************************************************)
Init == InitAgentic \/ InitStrategies \/ InitTool \/ InitSample \/ InitParse \/ InitOutput

Next ==
    NextAgentic \/ NextStrategies \/ NextTool \/ NextSample \/ NextParse \/ NextOutput

Spec == Init /\ [][Next]_vars


(***************************************************************************)
(* Properties.                                                             *)
(***************************************************************************)
InputIds == {assertions[i].id : i \in 1..Len(assertions)}

\* the orchestrator requests issued so far
OrchRequests == Cardinality({i \in 1..Len(calls) : calls[i].fn = "orchestrator"})

\* C1: runAgenticPipeline issues at most MAX_AGENT_TURNS orchestrator requests; after
\* MAX_AGENT_TURNS turns that all asked for tool use the loop is over and the function
\* has returned, without an error, what it harvested.
C1_TurnBound ==
    strategy = "agentic" =>
        /\ OrchRequests <= MAX_AGENT_TURNS
        /\ (pc = "request" => turn < MAX_AGENT_TURNS)
        /\ (turn >= MAX_AGENT_TURNS =>
               /\ turn = MAX_AGENT_TURNS
               /\ OrchRequests = MAX_AGENT_TURNS
               /\ pc = "returned"
               /\ error = Absent)

C1_Witness ==
    /\ strategy = "agentic"
    /\ turn = MAX_AGENT_TURNS
    /\ pc = "returned"
    /\ timeline # <<>>
    /\ Keys(evaluationsById) # {}

\* C2: once a pipeline has returned, every key of the evaluations map is the id of
\* an input assertion.
C2_KeysAreInputIds == pc = "returned" => Keys(evaluationsById) \subseteq InputIds

\* C3: once runSinglePipeline has returned, the keys of the evaluations map are
\* exactly the ids of the input assertions.
C3_SingleKeysAreAllInputIds ==
    (strategy = "single" /\ pc = "returned") => Keys(evaluationsById) = InputIds

\* C4: a pipeline never rejects with the SyntaxError of a failed parse of model text.
C4_ParseFailureNeverAborts == pc = "threw" => error # "SyntaxError"

\* what the model call of the tool makes the tool body throw
BackendError(resp) ==
    IF resp.threw THEN "TransportError"
    ELSE IF ~parseJsonFromResponse(TextOf(resp.content)).ok THEN "SyntaxError"
    ELSE Absent

IsErrorEnvelope(env, message) ==
    /\ env.isError = "true"
    /\ JSONparse(env.content) = [ok |-> TRUE, value |-> Obj(NoField, NoField, message)]

\* C5: executeTool returns an envelope whatever the tool name, the tool input and
\* the outcome of the model call: { error: message } with isError true when something
\* was thrown, { timeline } or { evaluations } without isError on success; a timeline
\* input that is absent or no array reaches the evaluation request as an empty timeline.
C5_ExecuteToolNeverRaises ==
    (strategy = "tool" /\ pc # "executeTool") =>
        /\ pc = "returned"
        /\ envelope.raised = Absent
        /\ JSONparse(envelope.content).ok
        /\ envelope.isError \in {"true", Absent}
        /\ IF toolCall.toolName = "describe_timeline"
           THEN IF BackendError(toolCall.resp) # Absent
                THEN IsErrorEnvelope(envelope, BackendError(toolCall.resp))
                ELSE /\ envelope.isError = Absent
                     /\ IsArray(JSONparse(envelope.content).value.timeline)
                     /\ JSONparse(envelope.content).value.error = Absent
           ELSE IF toolCall.toolName = "evaluate_assertions"
           THEN IF ~toolCall.toolInput.defined
                THEN IsErrorEnvelope(envelope, "TypeError")
                ELSE /\ Len(calls) = 1
                     /\ calls[1].fn = "evaluateAssertions"
                     /\ calls[1].arg = (IF toolCall.toolInput.timeline.kind = "array"
                                        THEN toolCall.toolInput.timeline.items ELSE <<>>)
                     /\ IF BackendError(toolCall.resp) # Absent
                        THEN IsErrorEnvelope(envelope, BackendError(toolCall.resp))
                        ELSE /\ envelope.isError = Absent
                             /\ IsArray(JSONparse(envelope.content).value.evaluations)
                             /\ JSONparse(envelope.content).value.error = Absent
           ELSE /\ calls = <<>>
                /\ IsErrorEnvelope(envelope, "Unknown tool: " \o toolCall.toolName)

C5_Witness ==
    /\ strategy = "tool"
    /\ pc = "returned"
    /\ toolCall.toolName = "evaluate_assertions"
    /\ toolCall.toolInput = Input(NotArr)
    /\ toolCall.resp.threw
    /\ envelope.isError = "true"


\* the requests that threw, and those among them made inside a tool
ThrownCalls == {i \in 1..Len(calls) : calls[i].threw}
InTool(i) == strategy \in {"agentic", "tool"} /\ calls[i].fn # "orchestrator"

\* C6 as stated: whenever a model request has thrown, the run is aborted with the
\* transport error, wherever the request was made.
C6_TransportErrorAlwaysAborts ==
    ThrownCalls # {} => (pc = "threw" /\ error = "TransportError")

\* C6: a transport error of a request made by a strategy or by the orchestrator loop
\* itself aborts the run at that request; one of a request made inside a tool is caught
\* by executeTool and does not abort; a run is aborted by a transport error only so.
C6_TransportErrorAbortsOutsideTools ==
    /\ \A i \in ThrownCalls :
          ~InTool(i) => (i = Len(calls) /\ pc = "threw" /\ error = "TransportError")
    /\ (\A i \in ThrownCalls : InTool(i)) => error # "TransportError"
    /\ error = "TransportError" => pc = "threw"
    /\ (strategy = "tool" /\ ThrownCalls # {}) =>
          (pc = "returned" /\ IsErrorEnvelope(envelope, "TransportError"))

C6_Witness ==
    /\ strategy = "agentic"
    /\ pc = "threw"
    /\ error = "TransportError"
    /\ \E i \in ThrownCalls : InTool(i) /\ i < Len(calls)
    /\ \E k \in 1..Len(toolResults) : toolResults[k].is_error

\* the tool_use blocks of a response, in order
ToolUseOf(content) == SelectSeq(content, LAMBDA b : b.type = "tool_use")

\* res answers the first Len(res) of blocks, one by one
AnswersInOrder(res, blocks) ==
    /\ Len(res) <= Len(blocks)
    /\ \A k \in 1..Len(res) :
          res[k].type = "tool_result" /\ res[k].tool_use_id = blocks[k].id

\* C7: the history alternates user and assistant turns; every user turn after the
\* first holds one tool_result per tool_use block of the assistant turn before it, in
\* order and with the ids of the blocks; every finished tool_use turn has its user turn.
C7_OneUserTurnPerToolTurn ==
    strategy = "agentic" =>
        /\ \A i \in 1..Len(messages) :
              messages[i].role = (IF i % 2 = 1 THEN "user" ELSE "assistant")
        /\ \A i \in 3..Len(messages) :
              messages[i].role = "user" =>
                  /\ Len(messages[i].content) = Len(ToolUseOf(messages[i - 1].content))
                  /\ AnswersInOrder(messages[i].content, ToolUseOf(messages[i - 1].content))
        /\ (pc = "request" => Len(messages) = 2 * turn + 1)
        /\ (pc = "tools" =>
               /\ Len(messages) = 2 * turn + 2
               /\ stop_reason = "tool_use"
               /\ AnswersInOrder(toolResults, ToolUseOf(messages[Len(messages)].content)))
        /\ ((pc = "returned" /\ stop_reason = "tool_use") => Len(messages) = 2 * turn + 1)

C7_Witness ==
    /\ strategy = "agentic"
    /\ Len(messages) >= 5
    /\ Len(messages[3].content) = 2
    /\ messages[3].content[2].tool_use_id = ToolUseIds[2]
    /\ messages[5].content = <<>>

\* C8: once a response with a stop_reason other than "tool_use" has come, it is the
\* last message, the function has returned without error, no tool was run for it and
\* nothing more happens; if it was the first response, one request was made and the
\* timeline and the evaluations map are empty.
C8_EndsAtFirstNonToolUse ==
    (strategy = "agentic" /\ stop_reason \notin {Absent, "tool_use"}) =>
        /\ pc = "returned"
        /\ error = Absent
        /\ Len(messages) = 2 * turn + 2
        /\ messages[Len(messages)].role = "assistant"
        /\ OrchRequests = turn + 1
        /\ calls[Len(calls)].fn = "orchestrator"
        /\ ~ENABLED NextAgentic
        /\ (turn = 0 =>
               /\ Len(calls) = 1
               /\ timeline = <<>>
               /\ evaluationsById = EmptyMap)

C8_Witness ==
    /\ strategy = "agentic"
    /\ pc = "returned"
    /\ turn = 0
    /\ stop_reason = "max_tokens"
    /\ ToolUseOf(messages[Len(messages)].content) # <<>>

\* the tool results of one turn with the names of the tools they answer
ResultsOfTurn(blocks, res) ==
    [k \in 1..Len(res) |->
        [name |-> blocks[k].name, content |-> res[k].content, is_error |-> res[k].is_error]]

\* the tool results in the first n messages, in processing order
RECURSIVE History(_)
History(n) ==
    IF n < 3 THEN <<>>
    ELSE IF messages[n].role # "user" THEN History(n - 1)
    ELSE History(n - 2)
         \o ResultsOfTurn(ToolUseOf(messages[n - 1].content), messages[n].content)

\* every tool result processed so far, those of the turn in progress included
Processed ==
    History(Len(messages))
    \o (IF pc = "tools"
        THEN ResultsOfTurn(ToolUseOf(messages[Len(messages)].content), toolResults)
        ELSE <<>>)

Successful(toolName) ==
    SelectSeq(Processed, LAMBDA r : r.name = toolName /\ ~r.is_error)

LastOf(s) == s[Len(s)]

\* C9: the timeline accumulator is the timeline array of the latest successful
\* describe_timeline result processed so far, and empty when there is none.
C9_TimelineIsLatestSuccess ==
    strategy = "agentic" =>
        timeline = (IF Successful("describe_timeline") = <<>> THEN <<>>
                    ELSE JSONparse(LastOf(Successful("describe_timeline")).content)
                             .value.timeline.items)

C9_Witness ==
    /\ strategy = "agentic"
    /\ Len(Successful("describe_timeline")) = 2
    /\ JSONparse(Successful("describe_timeline")[1].content).value.timeline.items = TimelineB
    /\ timeline = TimelineA
    /\ LastOf(Processed).name = "describe_timeline"

RECURSIVE Flatten(_)
Flatten(lists) == IF lists = <<>> THEN <<>> ELSE Head(lists) \o Flatten(Tail(lists))

\* the evaluations of the successful evaluate_assertions results, in processing order
Evaluated ==
    Flatten([k \in 1..Len(Successful("evaluate_assertions")) |->
                JSONparse(Successful("evaluate_assertions")[k].content)
                    .value.evaluations.items])

IdOf(e) == IF Truthy(e.assertionId) THEN e.assertionId ELSE e.id

\* the latest evaluation of each id in list
MergeById(list) ==
    [id \in {IdOf(list[i]) : i \in {j \in 1..Len(list) : Truthy(IdOf(list[j]))}} |->
        list[CHOOSE i \in 1..Len(list) :
                 /\ IdOf(list[i]) = id
                 /\ \A j \in (i + 1)..Len(list) : IdOf(list[j]) # id]]

NoTextBlock(resp) == \A i \in 1..Len(resp.content) : resp.content[i].type # "text"

\* the response gives no evaluation: no text block, no JSON, no evaluations in it,
\* or null as the first of them
NoEvaluation(resp) ==
    \/ NoTextBlock(resp)
    \/ ~parseJsonFromResponse(TextOf(resp.content)).ok
    \/ ~IsArray(parseJsonFromResponse(TextOf(resp.content)).value.evaluations)
    \/ parseJsonFromResponse(TextOf(resp.content)).value.evaluations.items = <<>>
    \/ IsNull(parseJsonFromResponse(TextOf(resp.content)).value.evaluations.items[1])

\* the request of runSinglePipeline for the assertion at idx has been answered
SingleAnswered ==
    /\ strategy = "single"
    /\ pc = "single"
    /\ Len(calls') = Len(calls) + 1
    /\ ~calls'[Len(calls')].threw

\* C11: when the response of runSinglePipeline for an assertion gives no evaluation,
\* the map gets, under the id of that assertion, the fallback evaluation (uncertain,
\* confidence 0, "No evaluation returned.", no evidence), the other entries stay, and
\* the loop goes on with the next assertion.
C11_SingleFallback ==
    [][(SingleAnswered /\ NoEvaluation(calls'[Len(calls')].resp)) =>
          /\ Keys(evaluationsById') = Keys(evaluationsById) \cup {assertions[idx].id}
          /\ evaluationsById'[assertions[idx].id] =
                 [assertionId |-> assertions[idx].id, id |-> Absent,
                  verdict |-> "uncertain", confidence |-> 0,
                  explanation |-> "No evaluation returned.", evidence |-> Arr(<<>>)]
          /\ \A k \in Keys(evaluationsById) \ {assertions[idx].id} :
                 evaluationsById'[k] = evaluationsById[k]
          /\ pc' = "single"
          /\ idx' = idx + 1
          /\ error' = Absent]_vars

C11_Witness ==
    /\ strategy = "single"
    /\ pc = "returned"
    /\ Len(calls) = 2
    /\ NoTextBlock(calls[1].resp)
    /\ ~NoEvaluation(calls[2].resp)
    /\ Keys(evaluationsById) = {"a1", "a2"}
    /\ evaluationsById["a1"].explanation = "No evaluation returned."
    /\ evaluationsById["a2"].verdict = "pass"

\* the key under which runSinglePipeline records the response to its k-th request
RecordedKey(k) ==
    IF NoEvaluation(calls[k].resp) THEN assertions[k].id
    ELSE Or(Or(parseJsonFromResponse(TextOf(calls[k].resp.content))
                   .value.evaluations.items[1].assertionId,
               parseJsonFromResponse(TextOf(calls[k].resp.content))
                   .value.evaluations.items[1].id),
            assertions[k].id)

\* C12: the k-th request of runSinglePipeline carries the k-th assertion alone and the
\* sampled frames; a request is issued only when every earlier one has been answered
\* and recorded in the map; a finished run has issued one request per assertion.
C12_SingleOneRequestPerAssertion ==
    (strategy = "single" /\ pc # "runPipeline") =>
        /\ Len(calls) <= Len(assertions)
        /\ \A k \in 1..Len(calls) :
              /\ calls[k].fn = "single"
              /\ calls[k].assertions = <<assertions[k]>>
              /\ calls[k].images = sampleFramesEvenly(frames, MAX_FRAMES_PER_TIMELINE_REQUEST)
              /\ calls[k].images = calls[1].images
              /\ (k < Len(calls) \/ pc # "threw") =>
                     (~calls[k].threw /\ RecordedKey(k) \in Keys(evaluationsById))
        /\ (pc = "single" => Len(calls) = idx - 1)
        /\ (pc = "threw" => calls[Len(calls)].threw)
        /\ (pc = "returned" => Len(calls) = Len(assertions))

C12_Witness ==
    /\ strategy = "single"
    /\ pc = "returned"
    /\ Len(calls) = 2
    /\ Len(frames) > MAX_FRAMES_PER_TIMELINE_REQUEST
    /\ Len(calls[2].images) = MAX_FRAMES_PER_TIMELINE_REQUEST
    /\ calls[2].assertions[1].id = "a2"

\* the timeline / the evaluations that the text of a response holds
TimelineIn(resp) ==
    IF IsArray(parseJsonFromResponse(TextOf(resp.content)).value.timeline)
    THEN parseJsonFromResponse(TextOf(resp.content)).value.timeline.items ELSE <<>>

EvaluationsIn(resp) ==
    IF IsArray(parseJsonFromResponse(TextOf(resp.content)).value.evaluations)
    THEN parseJsonFromResponse(TextOf(resp.content)).value.evaluations.items ELSE <<>>

\* runTwoPassPipeline is the pipeline that runs
TwoPass == strategy \notin {"single", "batch"} /\ pc \in {"pass1", "pass2", "returned", "threw"}

\* C13: runTwoPassPipeline first asks for the timeline with the sampled frames, then,
\* pass 1 being over, for the evaluations with that timeline, all the assertions and no
\* image; it returns the pass-1 timeline and the pass-2 evaluations keyed by id: one
\* evaluation "pass" for the only assertion a1 gives exactly the entry a1, "pass".
C13_TwoPassTwoRequests ==
    (TwoPass /\ strategy \in Strategies) =>
        /\ (pc = "pass1" => calls = <<>>)
        /\ (pc = "pass2" => Len(calls) = 1 /\ ~calls[1].threw)
        /\ (pc = "threw" => Len(calls) \in {1, 2})
        /\ (pc = "returned" => Len(calls) = 2)
        /\ (Len(calls) >= 1 =>
               /\ calls[1].fn = "describeTimeline"
               /\ calls[1].images = sampleFramesEvenly(frames, MAX_FRAMES_PER_TIMELINE_REQUEST))
        /\ (Len(calls) = 2 =>
               /\ calls[2].fn = "evaluateAssertions"
               /\ calls[2].images = <<>>
               /\ calls[2].assertions = assertions
               /\ calls[2].arg = TimelineIn(calls[1].resp))
        /\ (pc = "returned" =>
               /\ timeline = TimelineIn(calls[1].resp)
               /\ evaluationsById = MergeById(EvaluationsIn(calls[2].resp))
               /\ (Len(assertions) = 1 /\ Len(EvaluationsIn(calls[2].resp)) = 1
                   /\ EvaluationsIn(calls[2].resp)[1].assertionId = "a1"
                   /\ EvaluationsIn(calls[2].resp)[1].verdict = "pass") =>
                      (Keys(evaluationsById) = {"a1"}
                       /\ evaluationsById["a1"].verdict = "pass"))

C13_Witness ==
    /\ TwoPass
    /\ pc = "returned"
    /\ Len(assertions) = 1
    /\ Len(calls[1].images) = MAX_FRAMES_PER_TIMELINE_REQUEST
    /\ timeline = TimelineB
    /\ calls[2].resp = Says(TextEvalsOne)
    /\ Keys(evaluationsById) = {"a1"}

\* C14: runBatchPipeline issues one request, with the sampled frames and all the
\* assertions; it returns an empty timeline and the evaluations of the response that
\* carry an id, keyed by it.
C14_BatchOneRequest ==
    strategy = "batch" =>
        /\ (pc \in {"runPipeline", "batch"} => calls = <<>>)
        /\ (pc \in {"returned", "threw"} =>
               /\ Len(calls) = 1
               /\ calls[1].fn = "batch"
               /\ calls[1].images = sampleFramesEvenly(frames, MAX_FRAMES_PER_TIMELINE_REQUEST)
               /\ calls[1].assertions = assertions)
        /\ (pc = "returned" =>
               /\ timeline = <<>>
               /\ evaluationsById = MergeById(EvaluationsIn(calls[1].resp))
               /\ \A i \in 1..Len(EvaluationsIn(calls[1].resp)) :
                     Truthy(IdOf(EvaluationsIn(calls[1].resp)[i])) <=>
                         \E k \in Keys(evaluationsById) :
                            k = IdOf(EvaluationsIn(calls[1].resp)[i]))

C14_Witness ==
    /\ strategy = "batch"
    /\ pc = "returned"
    /\ Len(assertions) = 2
    /\ Len(calls[1].images) = MAX_FRAMES_PER_TIMELINE_REQUEST
    /\ calls[1].resp = Says(TextEvalsNoId)
    /\ Keys(evaluationsById) = {"a2"}

\* sampleFramesEvenly has been called on frames with the cap args.maxFrames
Sampled == strategy = "sampleFramesEvenly" /\ Len(ret) >= 1

\* C15: with a cap M >= 2 and more than M frames, sampleFramesEvenly returns M frames
\* of strictly increasing index, the first and the last frame of the input among them.
C15_SampleKeepsEnds ==
    (Sampled /\ args.maxFrames >= 2 /\ Len(frames) > args.maxFrames) =>
        /\ Len(ret[1]) = args.maxFrames
        /\ \A k \in 1..Len(ret[1]) : ret[1][k].defined
        /\ \A k \in 1..(Len(ret[1]) - 1) : ret[1][k].frameIndex < ret[1][k + 1].frameIndex
        /\ ret[1][1] = frames[1]
        /\ ret[1][Len(ret[1])] = frames[Len(frames)]

C15_Witness ==
    /\ Sampled
    /\ Len(frames) = 8
    /\ args.maxFrames = 3
    /\ ret[1] = <<Frame(0), Frame(4), Frame(7)>>

\* C16 as stated: with a cap M >= 1 sampleFramesEvenly returns min(N, M) elements,
\* each a frame of the input, in input order; with N > M the i-th is the frame at
\* index round(i * (N - 1) / (M - 1)), at most N - 1.
C16_SampleReturnsFrames ==
    (Sampled /\ args.maxFrames >= 1) =>
        /\ Len(ret[1]) = MathMin(Len(frames), args.maxFrames)
        /\ \A k \in 1..Len(ret[1]) : \E j \in 1..Len(frames) : ret[1][k] = frames[j]
        /\ \A k \in 1..(Len(ret[1]) - 1) : ret[1][k].frameIndex <= ret[1][k + 1].frameIndex
        /\ (Len(frames) > args.maxFrames /\ args.maxFrames >= 2) =>
               \A k \in 1..args.maxFrames :
                  \E j \in 0..(Len(frames) - 1) :
                     /\ ret[1][k] = frames[j + 1]
                     /\ \/ j = Len(frames) - 1
                        \/ /\ 2 * (k - 1) * (Len(frames) - 1) >= (2 * j - 1) * (args.maxFrames - 1)
                           /\ 2 * (k - 1) * (Len(frames) - 1) < (2 * j + 1) * (args.maxFrames - 1)

\* C17: sampleFramesEvenly returns its input when the cap is not below the length;
\* with a cap M >= 2, sampling the result again with the same cap returns the result.
C17_SampleIdempotent ==
    Sampled =>
        /\ (args.maxFrames >= Len(frames) => ret[1] = frames)
        /\ (Len(ret) = 2 /\ args.maxFrames >= 2) => ret[2] = ret[1]

C17_Witness ==
    /\ Sampled
    /\ Len(ret) = 2
    /\ args.maxFrames >= 2
    /\ Len(frames) > args.maxFrames
    /\ ret[1] # frames
    /\ ret[2] = ret[1]

\* parseJsonFromResponse has been called on args
Parsed == strategy = "parseJsonFromResponse" /\ pc # "parse"

\* C18 as stated: the serialisation of a JSON object, bare or inside a fenced block with
\* or without the tag json, parses to that object, fences inside its strings or not.
C18_ParseRoundTrip ==
    Parsed =>
        \A v \in JsonValues :
           (args.defined /\ args.text \in {Bare(JSONstringify(v)), Fenced(JSONstringify(v)),
                                           FencedJson(JSONstringify(v))}) =>
               (ret[1].ok /\ ret[1].value = v /\ pc = "returned")

\* the text that is left after trimming and fence stripping
Stripped == StripFence(Trim(TextOrEmpty(args)), FenceMatch(Trim(TextOrEmpty(args))))

\* text is the serialisation of a JSON value, white space around it or not
ValidJson(text) == \E v \in JsonValues : Trim(text) = JSONstringify(v)

\* C19: parseJsonFromResponse throws whenever the text left after trimming and fence
\* stripping is no valid JSON, an empty or missing text included; what it returns is
\* the value that text serialises, never a default.
C19_ParseFailsOnInvalid ==
    Parsed =>
        /\ (~ValidJson(Stripped) => (~ret[1].ok /\ pc = "threw" /\ error = "SyntaxError"))
        /\ ((~args.defined \/ args.text = <<>>) => pc = "threw")
        /\ (pc = "returned" =>
               (ret[1].ok /\ Trim(Stripped) = JSONstringify(ret[1].value)))

C19_Witness ==
    /\ Parsed
    /\ ~args.defined
    /\ pc = "threw"
    /\ error = "SyntaxError"

KnownTools == {"describe_timeline", "evaluate_assertions"}

\* the tool_use block that the agentic loop executes next
NextBlock == ToolUseOf(messages[Len(messages)].content)[Len(toolResults) + 1]

\* the agentic loop is about to execute a block that names no known tool
AtUnknownBlock ==
    /\ strategy = "agentic"
    /\ pc = "tools"
    /\ Len(toolResults) < Len(ToolUseOf(messages[Len(messages)].content))
    /\ NextBlock.name \notin KnownTools

\* executeTool is about to be called on its own with a name of no known tool
AtUnknownTool ==
    /\ strategy = "tool"
    /\ pc = "executeTool"
    /\ toolCall.toolName \notin KnownTools

\* C20: for a tool name other than describe_timeline and evaluate_assertions,
\* executeTool issues no model request and returns { error: "Unknown tool: <name>" } with
\* isError true; the agentic loop appends it as a tool_result with is_error true, keeps
\* the timeline and the evaluations map as they are, and goes on.
C20_UnknownTool ==
    [][/\ AtUnknownTool =>
             /\ calls' = calls
             /\ pc' = "returned"
             /\ envelope'.isError = "true"
             /\ JSONparse(envelope'.content) =
                    [ok |-> TRUE,
                     value |-> Obj(NoField, NoField, "Unknown tool: " \o toolCall.toolName)]
       /\ AtUnknownBlock =>
             /\ calls' = calls
             /\ toolResults' =
                    Append(toolResults,
                           [type |-> "tool_result", tool_use_id |-> NextBlock.id,
                            content |-> toolResults'[Len(toolResults')].content,
                            is_error |-> TRUE])
             /\ JSONparse(toolResults'[Len(toolResults')].content) =
                    [ok |-> TRUE,
                     value |-> Obj(NoField, NoField, "Unknown tool: " \o NextBlock.name)]
             /\ timeline' = timeline
             /\ evaluationsById' = evaluationsById
             /\ pc' = "tools"
             /\ error' = Absent]_vars

C20_Witness ==
    /\ strategy = "agentic"
    /\ pc = "returned"
    /\ error = Absent
    /\ timeline = TimelineA
    /\ Len(messages) >= 4
    /\ Len(messages[3].content) = 2
    /\ ~messages[3].content[1].is_error
    /\ messages[3].content[2].is_error
    /\ JSONparse(messages[3].content[2].content).value.error = "Unknown tool: zoom_in"


\* the awaited request r is the one the logged call c answered
SameRequest(r, c) ==
    /\ r.fn = c.fn
    /\ r.images = c.images
    /\ r.assertions = c.assertions
    /\ c.fn # "orchestrator" => r.arg = c.arg

\* a step logs no call, or the one call that settles the awaited request
SettlesPending ==
    \/ calls' = calls
    \/ /\ Len(pending) = 1
       /\ Len(calls') = Len(calls) + 1
       /\ SubSeq(calls', 1, Len(calls)) = calls
       /\ SameRequest(pending[1], calls'[Len(calls')])

\* C21: in every strategy and in the agentic loop at most one model request
\* is outstanding at any moment, and a request is logged only as the
\* settlement of the single request that was awaited.
C21_OneRequestOutstanding == [](Len(pending) <= 1) /\ [][SettlesPending]_vars

\* the second tool_use block of one turn is awaited after the first was settled
C21_Witness ==
    /\ strategy = "agentic"
    /\ pc = "tools"
    /\ Len(toolResults) = 1
    /\ Len(pending) = 1
    /\ Len(calls) >= 2


\* confidence is kept in hundredths: 0..100 stands for [0, 1]
WellFormed(e) ==
    /\ e.verdict \in {"pass", "fail", "uncertain"}
    /\ e.confidence \in 0..100

\* C22: every Evaluation held by the map a pipeline returned is well-formed:
\* its verdict is pass, fail or uncertain and its confidence lies in [0, 1].
C22_EvaluationsWellFormed ==
    pc = "returned" => \A k \in Keys(evaluationsById) : WellFormed(evaluationsById[k])


\* e.assertionId || e.id of a list entry; null has neither
EntryId(e) == IF IsNull(e) THEN Absent ELSE Or(e.assertionId, e.id)

\* the last request of a batch or two-pass run was answered with JSON
KeyedAnswered ==
    /\ strategy \in Strategies
    /\ calls # <<>>
    /\ calls[Len(calls)].fn \in {"batch", "evaluateAssertions"}
    /\ ~calls[Len(calls)].threw
    /\ parseJsonFromResponse(TextOf(calls[Len(calls)].resp.content)).ok

\* the evaluations list of that answer
KeyedList ==
    ArrayOrEmpty(parseJsonFromResponse(TextOf(calls[Len(calls)].resp.content))
                     .value.evaluations)

\* the position of the last entry of list whose id is k
LastWithId(list, k) ==
    CHOOSE i \in 1..Len(list) :
        /\ EntryId(list[i]) = k
        /\ \A j \in (i + 1)..Len(list) : EntryId(list[j]) # k

\* C23: runBatchPipeline and runTwoPassPipeline return a map with exactly one
\* entry per id of the model's evaluations list, the last entry of the list
\* with that id, whole; entries without any id are dropped.
C23_LastEntryWins ==
    KeyedAnswered =>
        /\ pc = "returned"
        /\ Keys(evaluationsById) =
               {EntryId(KeyedList[i]) : i \in 1..Len(KeyedList)} \ {Absent}
        /\ \A k \in Keys(evaluationsById) :
               evaluationsById[k] = KeyedList[LastWithId(KeyedList, k)]


\* the requests made by tools, in the order they were made
ToolCallsLogged == SelectSeq(calls, LAMBDA c : c.fn # "orchestrator")

\* the processed tool results whose tool makes a request
KnownProcessed == SelectSeq(Processed, LAMBDA r : r.name \in KnownTools)

FnOf(toolName) ==
    IF toolName = "describe_timeline" THEN "describeTimeline" ELSE "evaluateAssertions"

\* one iteration of the tool loop: the next block, and only it, is executed once
ExecutesNext ==
    (strategy = "agentic" /\ pc = "tools" /\ Len(toolResults) < Len(toolUseBlocks)) =>
        /\ toolResults' # toolResults
        /\ Len(toolResults') = Len(toolResults) + 1
        /\ SubSeq(toolResults', 1, Len(toolResults)) = toolResults
        /\ toolResults'[Len(toolResults')].tool_use_id =
               toolUseBlocks[Len(toolResults) + 1].id
        /\ Len(calls') = Len(calls) + Len(pending)
        /\ UNCHANGED <<toolUseBlocks, messages, pc, turn, error>>
        /\ toolResults'[Len(toolResults')].is_error =>
               UNCHANGED <<timeline, evaluationsById>>

\* C24: every tool_use block of every tool_use response is executed exactly once,
\* in response order, whether it succeeds or fails: the blocks in progress are those
\* of the last response, each iteration executes the next block once and records its
\* result, a failed block is neither run again nor skipped, and an error envelope
\* changes nothing but the results relayed to the model.
C24_EachBlockExecutedOnce ==
    /\ [](strategy = "agentic" =>
            /\ (pc = "tools" =>
                   /\ toolUseBlocks = ToolUseOf(messages[Len(messages)].content)
                   /\ AnswersInOrder(toolResults, toolUseBlocks))
            /\ Len(ToolCallsLogged) = Len(KnownProcessed)
            /\ \A k \in 1..Len(KnownProcessed) :
                   ToolCallsLogged[k].fn = FnOf(KnownProcessed[k].name))
    /\ [][ExecutesNext]_vars

\* a failed tool and the next block of the same turn have both been executed once
C24_Witness ==
    /\ strategy = "agentic"
    /\ pc = "tools"
    /\ Len(toolResults) = 2
    /\ toolResults[1].is_error
    /\ toolUseBlocks[1].name \in KnownTools
    /\ toolUseBlocks[2].name \in KnownTools
    /\ Len(ToolCallsLogged) = 2


\* the tool loop is about to execute an evaluate_assertions block
AtEvaluateBlock ==
    /\ strategy = "agentic"
    /\ pc = "tools"
    /\ Len(toolResults) < Len(toolUseBlocks)
    /\ toolUseBlocks[Len(toolResults) + 1].name = "evaluate_assertions"

\* C25 as stated: evaluate_assertions is evaluated against the timeline held by
\* the accumulator of the orchestrator when the block is executed.
C25_EvaluatesAccumulator ==
    [][AtEvaluateBlock =>
          /\ Len(calls') = Len(calls) + 1
          /\ calls'[Len(calls')].fn = "evaluateAssertions"
          /\ calls'[Len(calls')].arg = timeline]_vars

\* C25: the tool_use blocks of one turn are executed in response order, and an
\* evaluate_assertions block is evaluated against the timeline array written in its
\* own input (no timeline when the input has none), whatever the accumulator holds
\* and whatever a describe_timeline of the same turn returns.
C25_EvaluatesInputTimeline ==
    /\ []((strategy = "agentic" /\ pc = "tools") =>
             AnswersInOrder(toolResults, ToolUseOf(messages[Len(messages)].content)))
    /\ [][AtEvaluateBlock =>
             /\ Len(calls') = Len(calls) + 1
             /\ calls'[Len(calls')].fn = "evaluateAssertions"
             /\ calls'[Len(calls')].arg =
                    ArrayOrEmpty(OrEmptyInput(toolUseBlocks[Len(toolResults) + 1].input)
                                     .timeline)
             /\ Len(toolResults') = Len(toolResults) + 1
             /\ toolResults'[Len(toolResults')].tool_use_id =
                    toolUseBlocks[Len(toolResults) + 1].id]_vars

\* evaluate_assertions came before describe_timeline in one turn: it was evaluated
\* against the timeline of its input, which is neither what the accumulator held
\* nor what describe_timeline then returned
C25_Witness ==
    /\ strategy = "agentic"
    /\ pc = "tools"
    /\ turn = 0
    /\ Len(toolUseBlocks) = 2
    /\ Len(toolResults) = 2
    /\ toolUseBlocks[1].name = "evaluate_assertions"
    /\ toolUseBlocks[2].name = "describe_timeline"
    /\ Len(calls) = 3
    /\ calls[2].fn = "evaluateAssertions"
    /\ calls[2].arg = TimelineA
    /\ timeline = TimelineB


\* the orchestrator requests answered so far, in order
OrchCalls == SelectSeq(calls, LAMBDA c : c.fn = "orchestrator" /\ ~c.threw)

\* a step leaves the history alone or appends one message to it
AppendOnly ==
    /\ Len(messages') \in {Len(messages), Len(messages) + 1}
    /\ SubSeq(messages', 1, Len(messages)) = messages

\* C26: the message history of the agentic loop starts with the single user
\* prompt, only grows by appending, alternates user and assistant turns, holds
\* as its k-th assistant turn the whole content of the k-th response (stopping
\* responses included), and every orchestrator request carries all of it.
C26_HistoryAppendOnly ==
    /\ [](strategy = "agentic" =>
            /\ Len(messages) >= 1
            /\ messages[1] = Msg("user", <<OrchestratorUserPrompt(assertions)>>)
            /\ \A i \in 1..Len(messages) :
                   messages[i].role = (IF i % 2 = 1 THEN "user" ELSE "assistant")
            /\ Len(messages) \in {2 * Len(OrchCalls), 2 * Len(OrchCalls) + 1}
            /\ \A k \in 1..Len(OrchCalls) :
                   messages[2 * k] = Msg("assistant", OrchCalls[k].resp.content)
            /\ (pc = "request" =>
                   pending = <<Req("orchestrator", messages, <<>>, assertions, <<>>)>>)
            /\ \A i \in 1..Len(pending) :
                   pending[i].fn = "orchestrator" => pending[i].arg = messages)
    /\ [][strategy = "agentic" => AppendOnly]_vars

\* the third request carries the prompt, two whole responses and their results
C26_Witness ==
    /\ strategy = "agentic"
    /\ pc = "request"
    /\ Len(messages) = 5
    /\ pending[1].arg = messages
    /\ Len(pending[1].arg[2].content) = 2
    /\ pending[1].arg[2].content[1].type = "text"
    /\ pending[1].arg[3].content[1].type = "tool_result"


\* the positions of the image blocks of a content
ImagesOf(content) == {j \in 1..Len(content) : content[j].type = "image"}

\* at most the cap of images, each right after its own caption, frames increasing
ImagesCaptionedInOrder(content) ==
    /\ Cardinality(ImagesOf(content)) <= MAX_FRAMES_PER_TIMELINE_REQUEST
    /\ \A j \in ImagesOf(content) :
          /\ j > 1
          /\ content[j - 1].type = "text"
          /\ content[j - 1].text = "Frame"
          /\ content[j - 1].frame = content[j].frame
    /\ \A j, k \in ImagesOf(content) : j < k => content[j].frame < content[k].frame

\* no image block in any message of a history
NoImageIn(msgs) ==
    \A i \in 1..Len(msgs) : \A j \in 1..Len(msgs[i].content) :
        msgs[i].content[j].type # "image"

\* C27: a request built by describeTimeline, runBatchPipeline or runSinglePipeline
\* holds at most MAX_FRAMES_PER_TIMELINE_REQUEST image blocks, every image right
\* after its caption and the images by increasing frame index; a request of
\* evaluateAssertions or of the orchestrator loop holds no image.
C27_ImagesPerRequest ==
    \A i \in 1..Len(pending) :
        /\ pending[i].fn \in {"describeTimeline", "batch", "single"} =>
               /\ ImagesCaptionedInOrder(pending[i].content)
               /\ Cardinality(ImagesOf(pending[i].content)) = Len(pending[i].images)
        /\ pending[i].fn = "evaluateAssertions" => ImagesOf(pending[i].content) = {}
        /\ pending[i].fn = "orchestrator" =>
               /\ ImagesOf(pending[i].content) = {}
               /\ NoImageIn(pending[i].arg)

\* a batch request over more frames than the cap holds exactly the cap of images
C27_Witness ==
    /\ Len(frames) > MAX_FRAMES_PER_TIMELINE_REQUEST
    /\ Len(pending) = 1
    /\ pending[1].fn = "batch"
    /\ Cardinality(ImagesOf(pending[1].content)) = MAX_FRAMES_PER_TIMELINE_REQUEST
    /\ pending[1].content[2].frame = 0
    /\ pending[1].content[Len(pending[1].content) - 1].frame = Len(frames) - 1


\* where the input assertion at position i stands in the output: <<step, place>>
PlacesOf(out, i) ==
    {p \in {<<k, j>> : k \in 1..Len(out), j \in 1..MaxAggregated + 1} :
        /\ p[2] <= Len(out[p[1]].assertions)
        /\ out[p[1]].assertions[p[2]].id = assertions[i].id}

PlaceOf(out, i) == CHOOSE p \in PlacesOf(out, i) : TRUE

\* the output out of run() for the loaded assertions and the map returned, where
\* name(i) is the name the step of the assertion at position i must have
OutputGrouped(out, name) ==
    /\ \A i \in 1..Len(assertions) :
          /\ Cardinality(PlacesOf(out, i)) = 1
          /\ out[PlaceOf(out, i)[1]].id = name[i]
          /\ assertions[i].id \notin Keys(evaluationsById) =>
                 out[PlaceOf(out, i)[1]].assertions[PlaceOf(out, i)[2]] =
                     [id |-> assertions[i].id, verdict |-> "uncertain", confidence |-> 0,
                      evidence |-> <<>>, explanation |-> ""]
    /\ \A k, l \in 1..Len(out) : k # l => out[k].id # out[l].id
    /\ \A k \in 1..Len(out) : \A j \in 1..Len(out[k].assertions) :
          out[k].assertions[j].id \in InputIds
    /\ \A i, j \in 1..Len(assertions) :
          i < j =>
              \/ PlaceOf(out, i)[1] < PlaceOf(out, j)[1]
              \/ /\ PlaceOf(out, i)[1] = PlaceOf(out, j)[1]
                 /\ PlaceOf(out, i)[2] < PlaceOf(out, j)[2]
              \/ \E h \in 1..(i - 1) : PlaceOf(out, h)[1] = PlaceOf(out, j)[1]

\* C28 as stated: in the output of run() every input assertion stands exactly
\* once, in the step named by its testStepId, steps by first appearance and
\* assertions in input order; no entry in the map gives uncertain, 0, [], "";
\* keys of the map that are no input id appear nowhere.
C28_GroupedByTestStepId ==
    (strategy = "run" /\ pc = "returned") =>
        OutputGrouped(ret[1], [i \in 1..Len(assertions) |-> assertions[i].testStepId])

\* C28: the same, the step of an assertion being named by its testStepId, or
\* "default" when the testStepId is empty.
C28_GroupedByStepName ==
    (strategy = "run" /\ pc = "returned") =>
        OutputGrouped(ret[1],
                      [i \in 1..Len(assertions) |->
                          IF assertions[i].testStepId = "" THEN "default"
                          ELSE assertions[i].testStepId])

\* two steps interleaved in the input, one of them unnamed, an assertion without
\* an evaluation and a key of the map that is no input id
C28_Witness ==
    /\ strategy = "run"
    /\ pc = "returned"
    /\ Len(assertions) = 3
    /\ assertions[1].testStepId = "s1"
    /\ assertions[2].testStepId = ""
    /\ assertions[3].testStepId = "s1"
    /\ "zz" \in Keys(evaluationsById)
    /\ Len(ret[1]) = 2
    /\ ret[1][1].id = "s1"
    /\ Len(ret[1][1].assertions) = 2
    /\ ret[1][1].assertions[2].id = "a3"
    /\ ret[1][1].assertions[2].verdict = "uncertain"
    /\ ret[1][2].id = "default"
    /\ ret[1][2].assertions[1].id = "a2"


\* the requests each pipeline makes, by the name of the function that makes them
FnsOfPipeline(st) ==
    IF st = "single" THEN {"single"}
    ELSE IF st = "batch" THEN {"batch"}
    ELSE {"describeTimeline", "evaluateAssertions"}

\* the positions of the async function inside each pipeline
PcOfPipeline(st) ==
    IF st = "single" THEN {"single"}
    ELSE IF st = "batch" THEN {"batch"}
    ELSE {"pass1", "pass2"}

\* C29: a call of runPipeline runs one pipeline and only that one, never the
\* agentic loop: the single pipeline for "single", the batch pipeline for
\* "batch", the two-pass pipeline for any other strategy, missing or not
\* supported.
C29_OnePipelinePerCall ==
    strategy \in Strategies =>
        /\ pc \in {"runPipeline", "threw", "returned"} \cup PcOfPipeline(strategy)
        /\ \A i \in 1..Len(calls) : calls[i].fn \in FnsOfPipeline(strategy)
        /\ \A i \in 1..Len(pending) : pending[i].fn \in FnsOfPipeline(strategy)
        /\ (pc = "runPipeline" => calls = <<>> /\ pending = <<>>)
        /\ (strategy \notin {"single", "batch"} =>
               /\ Len(calls) <= 2
               /\ \A i \in 1..Len(calls) :
                      calls[i].fn = <<"describeTimeline", "evaluateAssertions">>[i]
               /\ (pc = "returned" => Len(calls) = 2))
        /\ (strategy = "batch" => Len(calls) <= 1)
        /\ messages = <<>>
        /\ turn = 0
        /\ toolUseBlocks = <<>>

\* a strategy that is not supported has run the two passes of the two-pass pipeline
C29_Witness ==
    /\ strategy \in Strategies \ (SUPPORTED_STRATEGIES \cup {Absent})
    /\ pc = "returned"
    /\ Len(calls) = 2
    /\ calls[1].fn = "describeTimeline"
    /\ calls[2].fn = "evaluateAssertions"


\* what the accumulators must hold once every processed result was harvested
AllHarvested ==
    /\ timeline = (IF Successful("describe_timeline") = <<>> THEN <<>>
                   ELSE JSONparse(LastOf(Successful("describe_timeline")).content)
                            .value.timeline.items)
    /\ evaluationsById = MergeById(Evaluated)

\* C30: a run that returns because the turn budget is used up has executed the
\* tools of the last response, harvested their results and appended them as a last
\* user turn that no request carries, so its history ends with a user turn; a run
\* that returns because a response did not ask for tool use ends its history with
\* that assistant turn.
C30_HistoryEnd ==
    (strategy = "agentic" /\ pc = "returned") =>
        IF stop_reason = "tool_use"
        THEN /\ turn = MAX_AGENT_TURNS
             /\ Len(OrchCalls) = MAX_AGENT_TURNS
             /\ Len(messages) = 2 * MAX_AGENT_TURNS + 1
             /\ messages[Len(messages)].role = "user"
             /\ messages[Len(messages)].content = toolResults
             /\ toolUseBlocks = ToolUseOf(messages[Len(messages) - 1].content)
             /\ Len(toolResults) = Len(toolUseBlocks)
             /\ AnswersInOrder(toolResults, toolUseBlocks)
             /\ Len(ToolCallsLogged) = Len(KnownProcessed)
             /\ AllHarvested
             /\ pending = <<>>
             /\ ~ENABLED NextAgentic
        ELSE /\ turn < MAX_AGENT_TURNS
             /\ Len(messages) = 2 * Len(OrchCalls)
             /\ messages[Len(messages)].role = "assistant"
             /\ messages[Len(messages)].content = calls[Len(calls)].resp.content
             /\ pending = <<>>

\* the budget ran out on a response that asked for describe_timeline and
\* evaluate_assertions: both ran and what they gave is in the returned result
C30_Witness ==
    /\ strategy = "agentic"
    /\ pc = "returned"
    /\ stop_reason = "tool_use"
    /\ turn = MAX_AGENT_TURNS
    /\ messages[Len(messages)].role = "user"
    /\ Len(messages[Len(messages)].content) = 2
    /\ Len(ToolCallsLogged) = 2
    /\ calls[Len(calls) - 2].fn = "orchestrator"
    /\ timeline # <<>>
    /\ Keys(evaluationsById) # {}

====
